---- MODULE Spec2Model ----
(***************************************************************************)
(* State-machine model of HR_interview_bot/models/rag_model.py.            *)
(*                                                                         *)
(* A text is a sequence of words (TLA+ strings); a PDF is a sequence of    *)
(* page texts.  The ChromaDB collection is a sequence of records, each a   *)
(* document (text) with a metadata mapping.  TF-IDF weights are kept in    *)
(* fixed point (quarter units), and a cosine similarity is kept exactly as *)
(* the triple (dot, nr, nj) standing for dot / sqrt(nr * nj), so that      *)
(* comparisons of similarities are exact integer comparisons.              *)
(***************************************************************************)
EXTENDS Integers, Sequences, FiniteSets, TLC

VARIABLES
    collection,           \* records of the ChromaDB collection "company_data"
    tie_order,            \* how this build's argsort orders equal keys
    pc,                   \* position of process_resume_and_match_jobs
    pdf_file,             \* argument of process_resume_and_match_jobs
    resume_text,          \* local: text extracted from pdf_file
    job_descriptions,     \* local: results["documents"]
    job_titles,           \* local: jobTitle of every metadata
    vectorizer,           \* local: the TfidfVectorizer of this call
    cosine_similarities,  \* local: one similarity per job description
    top_indices,          \* local: indices of the selected records
    matched_jobs,         \* the list returned under "matched_jobs"
    exception,            \* the exception that left the function, if any
    prev_call,            \* history: the last completed call (RepeatSpec only)
    open_calls,           \* history: fitz.open calls made by the current call
    get_calls,            \* history: collection.get calls made by the current call
    collection_at_call,   \* history: what the store held when the call began
    qpc,                  \* position of generate_questions_for_job
    title_core,           \* history: the title the argument was built around
    job_title_arg,        \* argument of generate_questions_for_job
    job_title,            \* local: the argument after strip()
    returned_questions,   \* the list generate_questions_for_job returned
    fpc,                  \* position of provide_feedback
    answers,              \* argument of provide_feedback: the caller's list
    answers_at_call,      \* history: the list as the caller passed it
    score,                \* local and first result of provide_feedback
    feedback,             \* local and second result of provide_feedback
    epc,                  \* position of extract_text_from_pdf
    epdf,                 \* argument of extract_text_from_pdf
    page_index,           \* number of pages the for loop has visited
    text,                 \* local and result of extract_text_from_pdf
    bad_page,             \* input: the page whose get_text() raises, 0 if none
    handle,               \* the fitz document of the with statement
    spc,                  \* position of extract_skills_using_ai
    skills_resume_text,   \* argument resume_text of extract_skills_using_ai
    prompt,               \* local: the instruction with the resume embedded
    completion,           \* history: the tokens the model generated
    outputs,              \* local: outputs[0], the sequence generate returned
    response,             \* local: the decoded sequence; its strip() is returned
    held,                 \* caller: a question list kept from an earlier call
    held_key,             \* caller: the stripped title held was returned for
    fmpc,                 \* position of format_resume_text
    format_arg,           \* argument resume_text of format_resume_text
    lines_at_call,        \* history: the lines the argument was written from
    formatted             \* the string format_resume_text returned

match_vars == <<collection, tie_order, pc, pdf_file, resume_text,
                job_descriptions, job_titles, vectorizer, cosine_similarities,
                top_indices, matched_jobs, exception, prev_call, open_calls,
                get_calls, collection_at_call>>

question_vars == <<qpc, title_core, job_title_arg, job_title, returned_questions>>

feedback_vars == <<fpc, answers, answers_at_call, score, feedback>>

extract_vars == <<epc, epdf, page_index, text, bad_page, handle>>

skills_vars == <<spc, skills_resume_text, prompt, completion, outputs, response>>

caller_vars == <<held, held_key>>

format_vars == <<fmpc, format_arg, lines_at_call, formatted>>

\* The variables each function leaves alone.
non_match_vars == <<question_vars, feedback_vars, extract_vars, skills_vars, caller_vars,
    format_vars>>

non_question_vars == <<match_vars, feedback_vars, extract_vars, skills_vars, caller_vars,
    format_vars>>

non_feedback_vars == <<match_vars, question_vars, extract_vars, skills_vars, caller_vars,
    format_vars>>

non_extract_vars == <<match_vars, question_vars, feedback_vars, skills_vars, caller_vars,
    format_vars>>

non_skills_vars == <<match_vars, question_vars, feedback_vars, extract_vars, caller_vars,
    format_vars>>

non_caller_vars == <<match_vars, question_vars, feedback_vars, extract_vars, skills_vars,
    format_vars>>

non_format_vars == <<match_vars, question_vars, feedback_vars, extract_vars, skills_vars,
    caller_vars>>

vars == <<match_vars, question_vars, feedback_vars, extract_vars, skills_vars,
          caller_vars, format_vars>>

(***************************************************************************)
(* Bounds of the model.                                                    *)
(***************************************************************************)
\* Largest number of records the collection holds.
MaxJobs == 6

\* Largest number of records the collection holds when calls are repeated.
MaxRepeatJobs == 3

\* Largest number of whitespace characters added on each side of a title.
MaxPad == 1

\* Largest number of answers passed to provide_feedback.
MaxAnswers == 5

\* Largest number of pages of a document given to extract_text_from_pdf.
MaxPages == 3

\* Largest length of an answer list all of whose permutations are graded
\* (of a longer list, every exchange of two answers is).
MaxPermuted == 4

\* Largest number of lines of a text given to format_resume_text.
MaxLines == 3

\* Largest number of answers graded between two requests for questions.
MaxInterleavedAnswers == 2

\* Largest number of tokens the model of this development generates before
\* it stops (the program allows max_new_tokens).
MaxGenerated == 2

(***************************************************************************)
(* Generic helpers.                                                        *)
(***************************************************************************)
Range(s) == {s[i] : i \in 1..Len(s)}

Min(a, b) == IF a <= b THEN a ELSE b

RECURSIVE SumOver(_, _)
\* Sum of f[x] for x in S.
SumOver(f, S) ==
    IF S = {} THEN 0
    ELSE LET x == CHOOSE y \in S : TRUE
         IN  f[x] + SumOver(f, S \ {x})

RECURSIVE Concat(_)
\* Concatenation of a sequence of sequences.
Concat(ss) ==
    IF ss = <<>> THEN <<>> ELSE Head(ss) \o Concat(Tail(ss))

Reverse(s) == [i \in 1..Len(s) |-> s[Len(s) + 1 - i]]

\* Python's s[-k:] : the last k elements, or all of s when it is shorter.
LastK(s, k) ==
    IF Len(s) <= k THEN s ELSE SubSeq(s, Len(s) - k + 1, Len(s))

(***************************************************************************)
(* extract_text_from_pdf                                                   *)
(***************************************************************************)
\* text += page.get_text() for every page, in document order.
extract_text_from_pdf(pdf) == Concat(pdf.pages)

(***************************************************************************)
(* TfidfVectorizer(stop_words='english') and cosine_similarity             *)
(***************************************************************************)
\* lowercase=True : the analyzer lower-cases every document.
Lower(w) ==
    CASE w = "Python" -> "python"
      [] w = "SQL" -> "sql"
      [] w = "The" -> "the"
      [] OTHER -> w

\* Words of one character: token_pattern (?u)\b\w\w+\b never yields them.
OneCharWords == {"c", "r"}

\* The members of the English stop-word list that occur in the model's texts.
StopWords == {"the", "and", "with"}

\* The terms of a document: lower-cased tokens of two or more characters
\* that are not stop words, in document order.
Analyze(doc) ==
    LET lowered == [i \in 1..Len(doc) |-> Lower(doc[i])]
        Keep(w) == w \notin OneCharWords /\ w \notin StopWords
    IN  SelectSeq(lowered, Keep)

RECURSIVE Analyzed(_)
\* The terms of every document of docs.
Analyzed(docs) ==
    IF docs = <<>> THEN <<>>
    ELSE <<Analyze(Head(docs))>> \o Analyzed(Tail(docs))

\* vocabulary_ : every term of every document.
Vocabulary(docs) == UNION {Range(Analyze(docs[i])) : i \in 1..Len(docs)}

\* Term frequency: occurrences of term among the terms a of a document.
Tf(a, term) == Cardinality({k \in 1..Len(a) : a[k] = term})

\* Document frequency: number of documents, given by their terms, that
\* contain term.
Df(terms, term) ==
    Cardinality({i \in 1..Len(terms) : Tf(terms[i], term) > 0})

\* idf = ln((1 + n) / (1 + df)) + 1 (smooth_idf), in quarter units rounded
\* to nearest: IdfTable[n][df] = round(4 * idf).
IdfTable ==
    << <<4>>,
       <<6, 4>>,
       <<7, 5, 4>>,
       <<8, 6, 5, 4>>,
       <<8, 7, 6, 5, 4>>,
       <<9, 7, 6, 5, 5, 4>>,
       <<10, 8, 7, 6, 5, 5, 4>>,
       <<10, 8, 7, 6, 6, 5, 4, 4>>,
       <<10, 9, 8, 7, 6, 5, 5, 4, 4>> >>

Idf(n, df) == IdfTable[n][df]

RECURSIVE IdfVector(_, _)
\* idf_ : the idf of every term of vocabulary, over the documents given by
\* their terms.
IdfVector(terms, vocabulary) ==
    IF vocabulary = {} THEN <<>>
    ELSE LET t == CHOOSE u \in vocabulary : TRUE
         IN  (t :> Idf(Len(terms), Df(terms, t))) @@ IdfVector(terms, vocabulary \ {t})

RECURSIVE Row(_, _, _)
\* A row of the tf-idf matrix, before normalisation: tf * idf for every
\* term of vocabulary, for the document whose terms are a.
Row(a, idf, vocabulary) ==
    IF vocabulary = {} THEN <<>>
    ELSE LET t == CHOOSE u \in vocabulary : TRUE
         IN  (t :> Tf(a, t) * idf[t]) @@ Row(a, idf, vocabulary \ {t})

RECURSIVE Rows(_, _, _)
\* The rows of the documents given by their terms, in order.
Rows(terms, idf, vocabulary) ==
    IF terms = <<>> THEN <<>>
    ELSE <<Row(Head(terms), idf, vocabulary)>> \o Rows(Tail(terms), idf, vocabulary)

\* vectorizer.fit_transform(all_documents): one row per document.
fit_transform(docs) ==
    LET terms == Analyzed(docs)
        vocabulary == Vocabulary(docs)
        idf == IdfVector(terms, vocabulary)
    IN  Rows(terms, idf, vocabulary)

\* Inner product of two rows.
Dot(x, y) == SumOver([t \in DOMAIN x |-> x[t] * y[t]], DOMAIN x)

\* A wrong squared norm: the sum of the weights instead of their squares.
Norm2Linear(x) == SumOver(x, DOMAIN x)

\* Squared Euclidean norm of a row; a zero norm is replaced by 1, as the
\* l2 normalisation does, so that a zero row stays zero.
Norm2(x) ==
    LET n2 == Dot(x, x)
    IN  IF n2 = 0 THEN 1 ELSE n2

\* A wrong similarity: the inner product, not divided by the row norms.
SimilarityUnnormalised(x, y) == [dot |-> Dot(x, y), nr |-> 1, nj |-> 1]

\* Cosine of rows x and y: dot / sqrt(nr * nj).
Similarity(x, y) == [dot |-> Dot(x, y), nr |-> Norm2(x), nj |-> Norm2(y)]

RECURSIVE cosine_similarity(_, _)
\* cosine_similarity(X, Y).flatten() for a one-row X: the similarity of x
\* to every row of Y, in the order of Y.
cosine_similarity(x, Y) ==
    IF Y = <<>> THEN <<>>
    ELSE <<Similarity(x, Head(Y))>> \o cosine_similarity(x, Tail(Y))

\* a < b and a = b for two similarities to the same resume row (a.nr = b.nr).
SimLess(a, b) == a.dot * a.dot * b.nj < b.dot * b.dot * a.nj

SimEq(a, b) == a.dot * a.dot * b.nj = b.dot * b.dot * a.nj

ZeroSim == [dot |-> 0, nr |-> 1, nj |-> 1]

(***************************************************************************)
(* argsort and the top-5 selection                                         *)
(***************************************************************************)
\* The orders in which a build's argsort may leave equal keys: by
\* increasing index (a stable sort) or by decreasing index.
TieOrders == {"stable", "reversed"}

\* Index i comes before index j in the ascending argsort of sims.
Before(sims, tie, i, j) ==
    \/ SimLess(sims[i], sims[j])
    \/ /\ SimEq(sims[i], sims[j])
       /\ IF tie = "stable" THEN i < j ELSE i > j

\* The indices of sims in ascending order of similarity.
SortedIndices(sims, tie) ==
    LET n == Len(sims)
        Pos(i) == 1 + Cardinality({j \in 1..n : Before(sims, tie, j, i)})
    IN  [k \in 1..n |-> CHOOSE i \in 1..n : Pos(i) = k]

\* An argsort whose order of equal keys changes from one call to the next.
argsort_varying(sims, tie) ==
    SortedIndices(sims, IF prev_call.valid THEN "reversed" ELSE "stable")

\* cosine_similarities.argsort()
argsort(sims, tie) == SortedIndices(sims, tie)

\* Number of matches kept.
TopK == 5

\* A selection that forgets to reverse: the top matches, least similar first.
TopIndicesAscending(sims, tie) == LastK(argsort(sims, tie), TopK)

\* A selection that keeps one match too few.
TopIndicesShort(sims, tie) == Reverse(LastK(argsort(sims, tie), TopK - 1))

\* cosine_similarities.argsort()[-5:][::-1]
TopIndices(sims, tie) == Reverse(LastK(argsort(sims, tie), TopK))

(***************************************************************************)
(* Entries of "matched_jobs".  Python mixes dicts and strings in the list; *)
(* here every entry is a record whose kind tells which of the two it is.   *)
(***************************************************************************)
JobEntry(title, sim) ==
    [kind |-> "job", job_title |-> title, similarity |-> sim, text |-> ""]

\* An entry that says nothing: whatever the message, the empty string.
TextEntryBlank(s) ==
    [kind |-> "text", job_title |-> "", similarity |-> ZeroSim, text |-> ""]

TextEntry(s) ==
    [kind |-> "text", job_title |-> "", similarity |-> ZeroSim, text |-> s]

NoJobsMessage == "No job descriptions available in ChromaDB."

EmptyVocabularyMessage ==
    "Error in processing job matching: empty vocabulary; perhaps the documents only contain stop words"

\* A result that pairs the k-th title of the corpus with the k-th best similarity.
MatchedJobsMisaligned(titles, sims, top) ==
    [k \in 1..Len(top) |-> JobEntry(titles[k], sims[top[k]])]

\* [{"job_title": job_titles[i], "similarity": cosine_similarities[i]} for i in top_indices]
MatchedJobs(titles, sims, top) ==
    [k \in 1..Len(top) |-> JobEntry(titles[top[k]], sims[top[k]])]

(***************************************************************************)
(* The inputs of the model.                                                *)
(***************************************************************************)
\* Records the collection may hold: two descriptions that share terms, one
\* that has no term, and one whose metadata has no "jobTitle" key.
JobRecords ==
    { [document |-> <<"Python", "sql">>, metadata |-> [jobTitle |-> "Data Scientist"]],
      [document |-> <<"python", "python", "sql">>, metadata |-> [jobTitle |-> "Software Engineer"]],
      [document |-> <<"the", "c">>, metadata |-> [jobTitle |-> "Cloud Engineer"]],
      [document |-> <<"sql">>, metadata |-> [company |-> "Acme"]] }

\* Uploaded files: one that is no PDF, a one-page resume without any term,
\* and a two-page resume.
PdfFiles ==
    { [parseable |-> FALSE, pages |-> <<>>],
      [parseable |-> TRUE, pages |-> << <<"The", "c">> >>],
      [parseable |-> TRUE, pages |-> << <<"Python">>, <<"sql">> >>] }

NoPdf == [parseable |-> FALSE, pages |-> <<>>]

NoVectorizer == [fit_called |-> FALSE, vocabulary |-> {}]

NoCall == [valid |-> FALSE, resume_text |-> <<>>, collection |-> <<>>,
           pc |-> "idle", matched_jobs |-> <<>>, exception |-> "none"]

(***************************************************************************)
(* process_resume_and_match_jobs                                           *)
(***************************************************************************)
\* results["documents"]
Documents(results) == [i \in 1..Len(results) |-> results[i].document]

\* metadata["jobTitle"] raises KeyError when the key is absent.
HasJobTitle(metadata) == "jobTitle" \in DOMAIN metadata

\* A wrong emptiness test that no list satisfies (job_descriptions is None).
IsNone(descriptions) == FALSE

\* not job_descriptions
NoDescriptions(descriptions) == descriptions = <<>>

\* [resume_text] + job_descriptions
AllDocuments(resume, descriptions) == <<resume>> \o descriptions

\* fit_transform raises ValueError("empty vocabulary; ...") when no document
\* has a term.
FitRaises(docs) == Vocabulary(docs) = {}

\* An except clause that catches another exception type.
CatchesKeyError(exc) == exc = "KeyError"

\* except ValueError as e
Catches(exc) == exc = "ValueError"

Locals == <<resume_text, job_descriptions, job_titles, vectorizer,
            cosine_similarities, top_indices, matched_jobs, exception, open_calls,
            get_calls, collection_at_call>>

\* A get that removes from the store the records it returns.
store_after_get_draining(store) == <<>>

\* The store after collection.get: a get is a read, the store holds what it held.
store_after_get(store) == store

\* A store client that answers from what it returned to the previous call.
collection_get_cached(store) ==
    IF prev_call.valid THEN prev_call.collection ELSE store

\* collection.get(include=["documents", "metadatas"]): no ids, no where, no
\* limit, so every record the store holds now, in the store's order.
collection_get(store) == store

\* A function that goes on to the store whether the extraction raised or not.
after_extraction_unguarded(raised) == "extracted"

\* Where the function is after line 116: the call of extract_text_from_pdf is
\* in no try block, so an exception leaves the function there; otherwise
\* the next statement is the query of line 119.
after_extraction(raised) == IF raised THEN "raised" ELSE "extracted"

\* A swallowed failure: the open never raises.
OpenNeverRaises(pdf) == FALSE

\* fitz.open(stream=..., filetype="pdf") raises when the bytes are no document.
OpenRaises(pdf) == ~pdf.parseable

\* The call and its step 1: extract_text_from_pdf(pdf_file), which raises
\* when fitz cannot open the stream.
Call(pdf) ==
    /\ pc = "idle"
    /\ pdf_file' = pdf
    /\ open_calls' = 1
    /\ collection_at_call' = collection
    /\ pc' = after_extraction(OpenRaises(pdf))
    /\ IF OpenRaises(pdf)
       THEN /\ resume_text' = <<>>
            /\ exception' = "FileDataError"
       ELSE /\ resume_text' = extract_text_from_pdf(pdf)
            /\ exception' = "none"
    /\ UNCHANGED <<collection, tie_order, job_descriptions, job_titles,
                   vectorizer, cosine_similarities, top_indices, matched_jobs,
                   prev_call, get_calls, non_match_vars>>

\* Step 2: collection.get, the job_titles comprehension and the emptiness test.
Query ==
    /\ pc = "extracted"
    /\ get_calls' = get_calls + 1
    /\ collection' = store_after_get(collection)
    /\ LET results == collection_get(collection)
       IN  /\ job_descriptions' = Documents(results)
           /\ IF \E i \in 1..Len(results) : ~HasJobTitle(results[i].metadata)
              THEN /\ pc' = "raised"
                   /\ exception' = "KeyError"
                   /\ UNCHANGED <<job_titles, matched_jobs>>
              ELSE /\ job_titles' = [i \in 1..Len(results) |-> results[i].metadata.jobTitle]
                   /\ exception' = "none"
                   /\ IF NoDescriptions(Documents(results))
                      THEN /\ matched_jobs' = <<TextEntry(NoJobsMessage)>>
                           /\ pc' = "returned"
                      ELSE /\ matched_jobs' = <<>>
                           /\ pc' = "fetched"
    /\ UNCHANGED <<tie_order, pdf_file, resume_text, vectorizer,
                   cosine_similarities, top_indices, prev_call, open_calls,
                   collection_at_call, non_match_vars>>

\* Step 3: the try block and the return.
Match ==
    /\ pc = "fetched"
    /\ LET all_documents == AllDocuments(resume_text, job_descriptions)
       IN  /\ vectorizer' = [fit_called |-> TRUE, vocabulary |-> Vocabulary(all_documents)]
           /\ IF FitRaises(all_documents)
              THEN /\ UNCHANGED <<cosine_similarities, top_indices>>
                   /\ IF Catches("ValueError")
                      THEN /\ matched_jobs' = <<TextEntry(EmptyVocabularyMessage)>>
                           /\ pc' = "returned"
                           /\ exception' = "none"
                      ELSE /\ matched_jobs' = <<>>
                           /\ pc' = "raised"
                           /\ exception' = "ValueError"
              ELSE LET tfidf_matrix == fit_transform(all_documents)
                       sims == cosine_similarity(Head(tfidf_matrix), Tail(tfidf_matrix))
                       top == TopIndices(sims, tie_order)
                   IN  /\ cosine_similarities' = sims
                       /\ top_indices' = top
                       /\ matched_jobs' = MatchedJobs(job_titles, sims, top)
                       /\ pc' = "returned"
                       /\ exception' = "none"
    /\ UNCHANGED <<collection, tie_order, pdf_file, resume_text,
                   job_descriptions, job_titles, prev_call, open_calls,
                   get_calls, collection_at_call, non_match_vars>>

\* The values every local has between two calls.
ResetLocals ==
    /\ pdf_file' = NoPdf
    /\ resume_text' = <<>>
    /\ job_descriptions' = <<>>
    /\ job_titles' = <<>>
    /\ vectorizer' = NoVectorizer
    /\ cosine_similarities' = <<>>
    /\ top_indices' = <<>>
    /\ matched_jobs' = <<>>
    /\ exception' = "none"
    /\ open_calls' = 0
    /\ get_calls' = 0
    /\ collection_at_call' = <<>>

\* The caller has the result (or the exception); the frame is gone.
Done ==
    /\ pc \in {"returned", "raised"}
    /\ pc' = "idle"
    /\ ResetLocals
    /\ UNCHANGED <<collection, tie_order, prev_call, non_match_vars>>

\* As Done, and the call is remembered for comparison with the next one.
DoneRecorded ==
    /\ pc \in {"returned", "raised"}
    /\ pc' = "idle"
    /\ prev_call' = [valid |-> TRUE, resume_text |-> resume_text, collection |-> collection,
                     pc |-> pc, matched_jobs |-> matched_jobs, exception |-> exception]
    /\ ResetLocals
    /\ UNCHANGED <<collection, tie_order, non_match_vars>>

\* Another client of the store adds a record between two requests.
StoreAdd(r, max) ==
    /\ pc = "idle"
    /\ Len(collection) < max
    /\ collection' = Append(collection, r)
    /\ UNCHANGED <<tie_order, pc, pdf_file, Locals, prev_call, non_match_vars>>

MatchInit ==
    /\ collection = <<>>
    /\ tie_order \in TieOrders
    /\ pc = "idle"
    /\ pdf_file = NoPdf
    /\ resume_text = <<>>
    /\ job_descriptions = <<>>
    /\ job_titles = <<>>
    /\ vectorizer = NoVectorizer
    /\ cosine_similarities = <<>>
    /\ top_indices = <<>>
    /\ matched_jobs = <<>>
    /\ exception = "none"
    /\ prev_call = NoCall
    /\ open_calls = 0
    /\ get_calls = 0
    /\ collection_at_call = <<>>

QuestionInit ==
    /\ qpc = "idle"
    /\ title_core = <<>>
    /\ job_title_arg = <<>>
    /\ job_title = <<>>
    /\ returned_questions = <<>>

FeedbackInit ==
    /\ fpc = "idle"
    /\ answers = <<>>
    /\ answers_at_call = <<>>
    /\ score = 0
    /\ feedback = ""

ExtractInit ==
    /\ epc = "idle"
    /\ epdf = NoPdf
    /\ page_index = 0
    /\ text = <<>>
    /\ bad_page = 0
    /\ handle = "none"

SkillsInit ==
    /\ spc = "idle"
    /\ skills_resume_text = <<>>
    /\ prompt = <<>>
    /\ completion = <<>>
    /\ outputs = <<>>
    /\ response = <<>>

CallerInit ==
    /\ held = <<>>
    /\ held_key = <<>>

FormatInit ==
    /\ fmpc = "idle"
    /\ format_arg = <<>>
    /\ lines_at_call = <<>>
    /\ formatted = <<>>

Init ==
    /\ MatchInit /\ QuestionInit /\ FeedbackInit /\ ExtractInit /\ SkillsInit
    /\ CallerInit /\ FormatInit

Next ==
    \/ \E r \in JobRecords : StoreAdd(r, MaxJobs)
    \/ \E pdf \in PdfFiles : Call(pdf)
    \/ Query
    \/ Match
    \/ Done

Spec == Init /\ [][Next]_vars

(***************************************************************************)
(* The question bank.  A string that is trimmed or compared is a sequence  *)
(* of tokens: a whitespace character or a word; a question is such a       *)
(* sequence too, a literal question being a single token.                  *)
(***************************************************************************)
\* The generate_..._questions functions: each returns a literal list.  The
\* one non-ASCII apostrophe of the source is written ' here.
generated_questions ==
    ("generate_software_engineer_questions" :>
        << <<"What are the core principles of object-oriented programming (OOP)?">>,
           <<"Explain the concept of design patterns. Can you provide an example?">>,
           <<"Describe how you manage code versioning using Git.">>,
           <<"How do you ensure the quality and maintainability of your code?">>,
           <<"What testing strategies do you use during development?">>,
           <<"Can you explain the differences between functional and imperative programming?">> >>)
    @@ ("generate_data_scientist_questions" :>
        << <<"What data cleaning techniques do you typically use?">>,
           <<"How do you approach exploratory data analysis (EDA)?">>,
           <<"What is your experience with machine learning algorithms like regression or classification?">>,
           <<"Explain a time you optimized a model to improve accuracy.">>,
           <<"Which tools and frameworks do you prefer for data visualization?">>,
           <<"How do you deal with imbalanced datasets?">> >>)
    @@ ("generate_cloud_engineer_questions" :>
        << <<"What is your experience with cloud platforms like AWS, Azure, or Google Cloud?">>,
           <<"How do you ensure high availability and fault tolerance in the cloud?">>,
           <<"What is the difference between IaaS, PaaS, and SaaS?">>,
           <<"Explain how you approach security in cloud environments.">>,
           <<"What is your experience with containerization and orchestration tools like Docker and Kubernetes?">>,
           <<"How do you monitor cloud infrastructure and services?">> >>)
    @@ ("generate_full_stack_developer_questions" :>
        << <<"How do you ensure communication between the front-end and back-end of a full-stack application?">>,
           <<"What technologies do you use for building RESTful APIs?">>,
           <<"How would you handle user authentication and authorization in a web application?">>,
           <<"Explain the differences between SQL and NoSQL databases.">>,
           <<"How do you optimize the performance of both front-end and back-end systems?">>,
           <<"Can you walk us through your development process for a full-stack application?">> >>)
    @@ ("generate_devops_engineer_questions" :>
        << <<"What is your experience with continuous integration/continuous deployment (CI/CD)?">>,
           <<"How do you monitor system performance and ensure reliability?">>,
           <<"Can you explain the concept of infrastructure as code (IaC)?">>,
           <<"What tools do you use for automation and configuration management?">>,
           <<"How do you handle scaling in a cloud environment?">>,
           <<"Explain your approach to disaster recovery and business continuity.">> >>)
    @@ ("generate_front_end_developer_questions" :>
        << <<"What is your experience with front-end frameworks like React, Angular, or Vue?">>,
           <<"How do you ensure responsive design across multiple devices?">>,
           <<"What is the difference between server-side rendering and client-side rendering?">>,
           <<"How do you optimize the performance of a front-end application?">>,
           <<"Can you explain the concept of state management in a front-end application?">>,
           <<"How do you handle cross-browser compatibility issues?">> >>)
    @@ ("generate_back_end_developer_questions" :>
        << <<"What is your experience with back-end technologies like Node.js, Python, or Ruby?">>,
           <<"How do you design scalable and maintainable APIs?">>,
           <<"Can you explain how you handle database migrations?">>,
           <<"What strategies do you use for error handling and logging?">>,
           <<"How do you ensure the security of your back-end systems?">>,
           <<"What is your approach to optimizing database queries for performance?">> >>)
    @@ ("generate_mobile_application_developer_questions" :>
        << <<"What is your experience with iOS and Android development?">>,
           <<"How do you manage app performance on different mobile devices?">>,
           <<"Can you explain the difference between native and hybrid mobile applications?">>,
           <<"What tools and frameworks do you use for mobile app testing?">>,
           <<"How do you handle offline functionality in mobile applications?">>,
           <<"What is your experience with mobile app security?">> >>)
    @@ ("generate_cybersecurity_analyst_questions" :>
        << <<"What is your experience with vulnerability assessments and penetration testing?">>,
           <<"How do you stay updated on the latest security threats and trends?">>,
           <<"Can you explain the difference between symmetric and asymmetric encryption?">>,
           <<"What strategies do you use to secure an organization's network?">>,
           <<"How do you approach incident response and handling a security breach?">>,
           <<"What tools do you use for network security monitoring?">> >>)
    @@ ("generate_database_administrator_questions" :>
        << <<"What is your experience with database optimization and indexing?">>,
           <<"How do you handle database backups and recovery?">>,
           <<"Explain your experience with database clustering and replication.">>,
           <<"What is your approach to data security and encryption in databases?">>,
           <<"How do you ensure database high availability and fault tolerance?">>,
           <<"Can you explain the differences between relational and non-relational databases?">> >>)
    @@ ("generate_system_administrator_questions" :>
        << <<"What is your experience with system monitoring and troubleshooting?">>,
           <<"How do you manage and configure servers for scalability?">>,
           <<"Can you explain the concept of virtualization and your experience with it?">>,
           <<"What tools do you use for automation and configuration management?">>,
           <<"How do you ensure the security of the systems you manage?">>,
           <<"Explain your experience with network configuration and firewall management.">> >>)
    @@ ("generate_network_engineer_questions" :>
        << <<"What is your experience with network protocols like TCP/IP and DNS?">>,
           <<"How do you troubleshoot network connectivity issues?">>,
           <<"What is your experience with network performance monitoring tools?">>,
           <<"Can you explain how you would design a network infrastructure for a company?">>,
           <<"What strategies do you use to secure a network?">>,
           <<"How do you ensure high availability in network infrastructure?">> >>)
    @@ ("generate_it_support_specialist_questions" :>
        << <<"How do you prioritize and manage multiple support tickets?">>,
           <<"Can you explain how you diagnose hardware and software issues?">>,
           <<"What tools do you use for remote troubleshooting?">>,
           <<"How do you manage user permissions and access control?">>,
           <<"What is your approach to maintaining system documentation?">>,
           <<"How do you ensure a high level of customer satisfaction in support?">> >>)
    @@ ("generate_web_developer_questions" :>
        << <<"What are the key differences between HTML5 and its previous versions?">>,
           <<"How do you ensure that a website is responsive across different devices?">>,
           <<"Explain the box model in CSS and how it affects layout design.">>,
           <<"What is the difference between synchronous and asynchronous JavaScript?">>,
           <<"Describe how you would optimize a website for performance and SEO.">>,
           <<"What tools or frameworks do you use for front-end development?">> >>)
    @@ ("generate_product_manager_questions" :>
        << <<"What strategies do you use for gathering product requirements?">>,
           <<"How do you prioritize features in the product roadmap?">>,
           <<"Can you explain your experience with product lifecycle management?">>,
           <<"How do you collaborate with engineering, marketing, and design teams?">>,
           <<"What is your experience with agile methodologies in product development?">>,
           <<"How do you measure the success of a product after launch?">> >>)
    @@ ("generate_machine_learning_engineer_questions" :>
        << <<"What machine learning algorithms are you most comfortable with?">>,
           <<"How do you handle missing data in your models?">>,
           <<"What techniques do you use for feature selection?">>,
           <<"Explain a challenging machine learning project you worked on and your approach to solving it.">>,
           <<"What is your experience with deep learning frameworks like TensorFlow or PyTorch?">>,
           <<"How do you evaluate the performance of your machine learning models?">> >>)
    @@ ("generate_it_project_manager_questions" :>
        << <<"Describe your approach to managing complex IT projects with tight deadlines.">>,
           <<"How do you ensure alignment between stakeholders during a project lifecycle?">>,
           <<"Explain how you manage risks and resolve conflicts in an IT project.">>,
           <<"Which project management tools do you prefer and why?">>,
           <<"How do you ensure your project team remains motivated and productive?">>,
           <<"Describe a challenging IT project you managed and how you ensured its success.">> >>)
    @@ ("generate_business_analyst_questions" :>
        << <<"How do you identify and document business requirements effectively?">>,
           <<"What techniques do you use to perform gap analysis?">>,
           <<"How do you handle conflicting requirements from different stakeholders?">>,
           <<"Can you explain a time when you improved a business process significantly?">>,
           <<"Which software or tools do you prefer for creating workflows or wireframes?">>,
           <<"How do you ensure that your solutions align with organizational goals?">> >>)
    @@ ("generate_technical_support_engineer_questions" :>
        << <<"How do you troubleshoot and resolve technical issues under pressure?">>,
           <<"Describe your experience with handling escalated support tickets.">>,
           <<"What tools or software do you prefer for remote troubleshooting?">>,
           <<"How do you communicate technical concepts to non-technical users?">>,
           <<"Explain a time when you solved a recurring issue in your support role.">>,
           <<"How do you stay updated on the latest technologies and troubleshooting techniques?">> >>)
    @@ ("generate_quality_assurance_engineer_questions" :>
        << <<"How do you design effective test cases for complex applications?">>,
           <<"What strategies do you use for ensuring thorough regression testing?">>,
           <<"How do you prioritize bugs during the software testing process?">>,
           <<"What automation tools have you used, and how do you evaluate their effectiveness?">>,
           <<"Describe a time when you identified a critical bug late in the development cycle.">>,
           <<"How do you collaborate with developers to improve software quality?">> >>)
    @@ ("generate_data_engineer_questions" :>
        << <<"How do you design and optimize data pipelines for large-scale datasets?">>,
           <<"What experience do you have with distributed systems like Hadoop or Spark?">>,
           <<"How do you ensure data quality and integrity in your ETL processes?">>,
           <<"What tools or platforms do you use for real-time data processing?">>,
           <<"Explain how you have used cloud platforms for data engineering tasks.">>,
           <<"How do you manage and secure sensitive data in compliance with regulations?">> >>)
    @@ ("generate_ai_engineer_questions" :>
        << <<"What is your experience with training and fine-tuning machine learning models?">>,
           <<"How do you optimize neural networks for performance and accuracy?">>,
           <<"Describe a project where you applied AI to solve a real-world problem.">>,
           <<"What frameworks and libraries do you prefer for AI development?">>,
           <<"How do you handle bias in AI models during development?">>,
           <<"What strategies do you use to deploy AI solutions into production?">> >>)
    @@ ("generate_ux_ui_designer_questions" :>
        << <<"How do you approach user research to inform your design process?">>,
           <<"What tools do you prefer for wireframing and prototyping?">>,
           <<"Describe how you have improved the usability of a product through design.">>,
           <<"How do you balance user needs with business goals in your designs?">>,
           <<"Explain how you collaborate with developers to implement your designs.">>,
           <<"What strategies do you use to gather and act on user feedback?">> >>)
    @@ ("generate_it_consultant_questions" :>
        << <<"How do you assess a company's IT infrastructure to recommend improvements?">>,
           <<"Describe a project where you implemented significant IT changes successfully.">>,
           <<"What methodologies do you use to ensure IT projects meet business goals?">>,
           <<"How do you stay updated with emerging technologies to advise clients?">>,
           <<"Explain a time when you had to manage resistance to IT changes.">>,
           <<"What tools do you use for conducting IT audits or assessments?">> >>)
    @@ ("generate_solutions_architect_questions" :>
        << <<"How do you ensure a solution architecture meets both technical and business needs?">>,
           <<"Describe your approach to creating scalable and secure system designs.">>,
           <<"What cloud platforms do you have experience with, and how have you used them?">>,
           <<"How do you handle trade-offs between technical and cost considerations?">>,
           <<"Explain a time when you designed a solution that solved a critical problem.">>,
           <<"How do you work with stakeholders to validate solution requirements?">> >>)
    @@ ("generate_it_operations_manager_questions" :>
        << <<"How do you manage and optimize IT operations for maximum efficiency?">>,
           <<"What metrics do you track to evaluate IT operational performance?">>,
           <<"Describe your approach to managing incident response and minimizing downtime.">>,
           <<"How do you ensure compliance with IT policies and regulations?">>,
           <<"Explain a time when you successfully managed a major IT infrastructure upgrade.">>,
           <<"How do you prioritize IT investments to align with business goals?">> >>)
    @@ ("generate_cto_questions" :>
        << <<"How do you develop and communicate a clear technology vision for the company?">>,
           <<"What strategies do you use to align technology with business objectives?">>,
           <<"Describe a time when you led a major technology transformation in an organization.">>,
           <<"How do you manage competing priorities for technology investment?">>,
           <<"Explain your approach to building and managing a high-performing IT team.">>,
           <<"What emerging technologies do you believe will have the biggest impact in the future?">> >>)
    @@ ("generate_security_engineer_questions" :>
        << <<"How do you approach securing a network against potential threats?">>,
           <<"What tools and techniques do you use to conduct penetration testing?">>,
           <<"How do you stay updated with the latest cybersecurity vulnerabilities and threats?">>,
           <<"Describe a time when you responded to a security breach. What was your process?">>,
           <<"What experience do you have with implementing SIEM (Security Information and Event Management) systems?">>,
           <<"How do you ensure compliance with data security regulations such as GDPR or HIPAA?">> >>)
    @@ ("generate_it_auditor_questions" :>
        << <<"How do you evaluate an organization's IT systems for compliance and security?">>,
           <<"What frameworks or standards do you use for IT audits (e.g., ISO 27001, COBIT)?">>,
           <<"Describe a time when you identified a significant risk during an audit. How did you address it?">>,
           <<"How do you prioritize tasks when auditing multiple systems or processes?">>,
           <<"What tools or software do you use to perform IT audits effectively?">>,
           <<"How do you communicate findings and recommendations to non-technical stakeholders?">> >>)
    @@ ("generate_software_architect_questions" :>
        << <<"How do you design scalable and maintainable software architectures?">>,
           <<"What tools and techniques do you use to document system architectures?">>,
           <<"Describe your approach to selecting technologies for a new project.">>,
           <<"How do you ensure alignment between development teams and architectural goals?">>,
           <<"Explain a time when you had to refactor an existing system to improve performance or scalability.">>,
           <<"How do you manage technical debt in long-term projects?">> >>)
    @@ ("generate_scrum_master_questions" :>
        << <<"How do you ensure that your team adheres to Agile principles and Scrum practices?">>,
           <<"Describe your process for handling team conflicts during a sprint.">>,
           <<"What tools do you use to manage sprint planning and track progress?">>,
           <<"How do you measure and improve team velocity over time?">>,
           <<"Explain a time when you helped a team overcome obstacles to deliver a project on time.">>,
           <<"How do you communicate with stakeholders about project progress and risks?">> >>)
    @@ ("generate_technical_writer_questions" :>
        << <<"How do you create technical documentation that is accessible to various audiences?">>,
           <<"What tools or platforms do you use for writing and managing documentation?">>,
           <<"Describe your process for gathering information from subject matter experts.">>,
           <<"How do you ensure accuracy and clarity in technical documents?">>,
           <<"Can you provide an example of a complex topic you simplified through documentation?">>,
           <<"How do you stay updated on tools and trends in technical writing?">> >>)
    @@ ("generate_network_security_analyst_questions" :>
        << <<"How do you monitor and analyze network traffic for potential security threats?">>,
           <<"What tools do you use to detect and mitigate network vulnerabilities?">>,
           <<"Describe your process for responding to a DDoS (Distributed Denial of Service) attack.">>,
           <<"How do you implement and manage firewalls and intrusion detection systems?">>,
           <<"What strategies do you use to educate employees on network security best practices?">>,
           <<"How do you ensure compliance with network security standards and regulations?">> >>)
    @@ ("generate_game_developer_questions" :>
        << <<"What game engines are you proficient in, and how have you used them in projects?">>,
           <<"Describe your process for optimizing game performance across platforms.">>,
           <<"How do you design engaging gameplay mechanics that enhance the user experience?">>,
           <<"What tools do you use for debugging and testing games during development?">>,
           <<"Explain how you work with artists and designers to implement game assets.">>,
           <<"Describe a challenging bug you encountered during development and how you resolved it.">> >>)
    @@ ("generate_embedded_systems_engineer_questions" :>
        << <<"What microcontrollers or processors have you worked with in your projects?">>,
           <<"How do you ensure real-time performance in embedded systems?">>,
           <<"Describe your experience with developing firmware for hardware devices.">>,
           <<"What debugging tools do you use for testing embedded systems?">>,
           <<"How do you optimize power consumption in low-power embedded devices?">>,
           <<"Explain a time when you designed a system with strict memory or resource constraints.">> >>)
    @@ ("generate_erp_consultant_questions" :>
        << <<"What ERP platforms have you worked with, and how have you implemented them?">>,
           <<"How do you ensure a smooth transition during an ERP system upgrade or migration?">>,
           <<"What strategies do you use to customize ERP solutions for specific business needs?">>,
           <<"Describe a challenging ERP implementation project and how you managed it.">>,
           <<"How do you train employees on using new ERP systems effectively?">>,
           <<"What tools do you use for integrating ERP systems with other enterprise applications?">> >>)
    @@ ("generate_salesforce_developer_questions" :>
        << <<"What experience do you have with developing custom Salesforce applications?">>,
           <<"How do you use Apex and Visualforce in your development process?">>,
           <<"Describe your approach to integrating Salesforce with external systems.">>,
           <<"What tools or strategies do you use to optimize Salesforce performance?">>,
           <<"How do you ensure data security and compliance in Salesforce applications?">>,
           <<"Explain a time when you customized Salesforce to meet a unique business requirement.">> >>)
    @@ ("generate_big_data_engineer_questions" :>
        << <<"What tools and frameworks do you prefer for handling big data (e.g., Hadoop, Spark)?">>,
           <<"How do you design and maintain scalable big data pipelines?">>,
           <<"Describe your experience with managing structured and unstructured datasets.">>,
           <<"What strategies do you use to ensure data consistency and quality in big data systems?">>,
           <<"How have you implemented data security in big data environments?">>,
           <<"Explain a challenging big data project you worked on and how you delivered results.">> >>)
    @@ ("generate_bi_developer_questions" :>
        << <<"What BI tools and platforms are you proficient in (e.g., Tableau, Power BI)?">>,
           <<"How do you design dashboards that effectively communicate business insights?">>,
           <<"Describe your experience with writing complex SQL queries for data analysis.">>,
           <<"What strategies do you use to ensure accuracy and reliability in BI reports?">>,
           <<"Explain how you work with stakeholders to gather requirements for BI projects.">>,
           <<"Describe a time when your BI solution had a significant impact on business decisions.">> >>)
    @@ ("generate_information_security_analyst_questions" :>
        << <<"How do you assess and mitigate security risks within an organization?">>,
           <<"What tools do you use for vulnerability scanning and threat detection?">>,
           <<"Describe your process for responding to and investigating security incidents.">>,
           <<"How do you ensure compliance with information security standards (e.g., ISO 27001)?">>,
           <<"Explain a time when you successfully prevented a security breach.">>,
           <<"What strategies do you use to educate employees on information security best practices?">> >>)
    @@ ("generate_robotics_engineer_questions" :>
        << <<"What programming languages and frameworks do you use for robotics development?">>,
           <<"Describe your experience with designing and implementing robotic control systems.">>,
           <<"How do you integrate sensors and actuators into robotic systems?">>,
           <<"What strategies do you use to optimize robot performance in dynamic environments?">>,
           <<"Describe a challenging robotics project you worked on and how you overcame obstacles.">>,
           <<"How do you approach testing and debugging in robotic systems?">> >>)
    @@ ("generate_cloud_solutions_architect_questions" :>
        << <<"What experience do you have with designing cloud-based architectures for scalability and security?">>,
           <<"Describe your approach to choosing between different cloud service providers (e.g., AWS, Azure, GCP).">>,
           <<"How do you ensure compliance with data security and privacy regulations in cloud solutions?">>,
           <<"What tools and techniques do you use for cost optimization in cloud architectures?">>,
           <<"Explain a complex cloud migration project you worked on and how you managed it.">>,
           <<"How do you handle hybrid cloud or multi-cloud environments effectively?">> >>)
    @@ ("generate_computer_vision_engineer_questions" :>
        << <<"What tools and frameworks do you use for computer vision development (e.g., OpenCV, TensorFlow)?">>,
           <<"Describe your experience with designing and training deep learning models for vision tasks.">>,
           <<"How do you optimize computer vision algorithms for real-time performance?">>,
           <<"What strategies do you use to collect and preprocess data for computer vision projects?">>,
           <<"Explain a challenging computer vision problem you solved and the techniques you used.">>,
           <<"How do you ensure the robustness and accuracy of your computer vision models?">> >>)
    @@ ("generate_site_reliability_engineer_questions" :>
        << <<"How do you monitor and maintain system reliability in a distributed environment?">>,
           <<"Describe your experience with incident response and root cause analysis.">>,
           <<"What tools and techniques do you use to automate infrastructure and deployment?">>,
           <<"How do you ensure high availability and fault tolerance in critical systems?">>,
           <<"Can you explain the concept of SLOs, SLIs, and SLAs and how you use them?">>,
           <<"What strategies do you use to scale systems to handle increased demand?">> >>)
    @@ ("generate_penetration_tester_questions" :>
        << <<"What tools and techniques do you use to identify and exploit vulnerabilities in systems?">>,
           <<"Describe your process for performing a penetration test from start to finish.">>,
           <<"How do you report and communicate findings to stakeholders effectively?">>,
           <<"What strategies do you use to stay updated with the latest exploits and attack methods?">>,
           <<"Explain a challenging penetration test you conducted and the outcomes.">>,
           <<"How do you ensure compliance with ethical hacking and legal regulations?">> >>)
    @@ ("generate_data_analyst_questions" :>
        << <<"What tools and platforms do you use for data analysis (e.g., Excel, Python, Tableau)?">>,
           <<"Describe your experience with cleaning and preprocessing large datasets.">>,
           <<"How do you communicate your findings effectively to non-technical stakeholders?">>,
           <<"What techniques do you use for identifying trends and patterns in data?">>,
           <<"Explain a data analysis project where your insights had a significant impact.">>,
           <<"How do you ensure data accuracy and reliability in your reports?">> >>)
    @@ ("generate_blockchain_developer_questions" :>
        << <<"What blockchain platforms are you proficient in (e.g., Ethereum, Hyperledger)?">>,
           <<"Describe your experience with developing smart contracts using Solidity or other languages.">>,
           <<"How do you ensure the security of blockchain applications against potential vulnerabilities?">>,
           <<"What tools do you use for testing and debugging blockchain-based solutions?">>,
           <<"Explain a blockchain project you worked on and the challenges you faced.">>,
           <<"How do you optimize the performance of blockchain networks and applications?">> >>)
    @@ ("generate_it_compliance_specialist_questions" :>
        << <<"What frameworks or standards do you use to ensure IT compliance (e.g., GDPR, ISO 27001)?">>,
           <<"Describe your process for conducting IT compliance audits.">>,
           <<"How do you stay updated with changes in compliance regulations?">>,
           <<"What strategies do you use to train employees on IT compliance requirements?">>,
           <<"Explain a time when you identified and resolved a compliance issue.">>,
           <<"How do you collaborate with other departments to maintain IT compliance?">> >>)
    @@ ("generate_software_development_manager_questions" :>
        << <<"How do you manage and prioritize tasks for development teams?">>,
           <<"Describe your approach to ensuring the quality and scalability of software projects.">>,
           <<"How do you handle conflicts or challenges within your development team?">>,
           <<"What strategies do you use to ensure on-time delivery of software projects?">>,
           <<"Explain a time when you implemented a new process to improve development efficiency.">>,
           <<"How do you balance technical leadership with project management responsibilities?">> >>)
    @@ ("generate_virtual_reality_developer_questions" :>
        << <<"What tools and frameworks do you use for VR development (e.g., Unity, Unreal Engine)?">>,
           <<"Describe your experience with designing immersive VR environments.">>,
           <<"How do you optimize VR applications for performance and user experience?">>,
           <<"What strategies do you use to integrate VR with other technologies (e.g., AR, AI)?">>,
           <<"Explain a VR project you worked on and the challenges you faced.">>,
           <<"How do you ensure accessibility and usability in VR applications?">> >>)
    @@ ("generate_infrastructure_engineer_questions" :>
        << <<"What is your experience in designing and implementing IT infrastructure?">>,
           <<"How do you handle network bottlenecks and improve infrastructure performance?">>,
           <<"Describe a project where you successfully migrated infrastructure to the cloud.">>,
           <<"What tools do you use for infrastructure monitoring and management?">>,
           <<"How do you ensure security and compliance in IT infrastructure?">>,
           <<"Can you explain the process of capacity planning and resource allocation?">> >>)
    @@ ("generate_it_operations_analyst_questions" :>
        << <<"How do you ensure smooth day-to-day IT operations?">>,
           <<"What tools do you use to monitor IT systems and prevent downtime?">>,
           <<"Describe your experience with ITIL or other service management frameworks.">>,
           <<"How do you handle escalations and prioritize incident response?">>,
           <<"What methods do you use to optimize IT operations and improve efficiency?">>,
           <<"Can you share an example where you implemented automation in IT operations?">> >>)
    @@ ("generate_digital_marketing_specialist_questions" :>
        << <<"What is your experience with SEO and PPC campaigns?">>,
           <<"How do you analyze and improve the performance of digital marketing strategies?">>,
           <<"Which tools do you prefer for social media marketing and why?">>,
           <<"How do you measure ROI for digital marketing campaigns?">>,
           <<"Can you explain your approach to content marketing and brand awareness?">>,
           <<"Describe a successful campaign you managed and the results you achieved.">> >>)
    @@ ("generate_network_architect_questions" :>
        << <<"How do you design scalable and secure network architectures?">>,
           <<"What experience do you have with SDN (Software-Defined Networking)?">>,
           <<"Can you describe a time you optimized a network for performance and reliability?">>,
           <<"What tools and protocols do you use to monitor network traffic?">>,
           <<"How do you ensure network security against evolving threats?">>,
           <<"What is your process for evaluating and implementing new networking technologies?">> >>)
    @@ ("generate_help_desk_technician_questions" :>
        << <<"How do you handle troubleshooting technical issues for end-users?">>,
           <<"Describe a situation where you resolved a high-priority IT issue.">>,
           <<"What is your experience with ticketing systems like Jira or ServiceNow?">>,
           <<"How do you communicate technical solutions to non-technical users?">>,
           <<"What steps do you take to document recurring issues and their solutions?">>,
           <<"How do you stay updated with the latest IT support tools and techniques?">> >>)
    @@ ("generate_configuration_manager_questions" :>
        << <<"How do you manage and maintain configuration baselines in IT systems?">>,
           <<"Describe your experience with version control systems like Git.">>,
           <<"What tools do you use for configuration management and automation?">>,
           <<"How do you ensure compliance with configuration standards and policies?">>,
           <<"Can you explain the importance of change management in configuration?">>,
           <<"Describe a scenario where you resolved a critical configuration issue.">> >>)
    @@ ("generate_systems_analyst_questions" :>
        << <<"How do you gather and analyze business requirements for system design?">>,
           <<"What tools and techniques do you use for process modeling and analysis?">>,
           <<"Describe your experience with systems integration and testing.">>,
           <<"How do you ensure the scalability and efficiency of system solutions?">>,
           <<"What methods do you use to stay updated on emerging technologies?">>,
           <<"Can you provide an example of a successful system implementation project?">> >>)
    @@ ("generate_database_developer_questions" :>
        << <<"What is your experience in designing and optimizing database schemas?">>,
           <<"How do you ensure database performance and scalability?">>,
           <<"Describe your experience with stored procedures, triggers, and indexing.">>,
           <<"What tools do you use for database development and management?">>,
           <<"How do you handle database migrations and data integrity issues?">>,
           <<"Can you explain your approach to ensuring database security?">> >>)
    @@ ("generate_it_business_partner_questions" :>
        << <<"How do you align IT strategies with business goals?">>,
           <<"Describe your experience collaborating with stakeholders to define IT priorities.">>,
           <<"What methods do you use to measure the ROI of IT initiatives?">>,
           <<"How do you identify opportunities for digital transformation in a business?">>,
           <<"What is your approach to managing IT budgets and resources?">>,
           <<"Can you share an example where you improved business outcomes through IT?">> >>)
    @@ ("generate_cloud_consultant_questions" :>
        << <<"What is your experience with cloud platforms like AWS, Azure, or GCP?">>,
           <<"How do you design cloud architectures to meet business requirements?">>,
           <<"Describe a successful cloud migration project you led or participated in.">>,
           <<"What tools and practices do you use for cloud cost optimization?">>,
           <<"How do you ensure security and compliance in cloud environments?">>,
           <<"Can you explain the advantages of serverless computing in the cloud?">> >>)
    @@ ("generate_virtualization_engineer_questions" :>
        << <<"What is your experience with virtualization platforms like VMware or Hyper-V?">>,
           <<"How do you optimize virtualized environments for performance and efficiency?">>,
           <<"Describe your experience with virtual machine migrations and backups.">>,
           <<"What tools do you use for monitoring and managing virtualized systems?">>,
           <<"How do you ensure security in a virtualized infrastructure?">>,
           <<"Can you explain the benefits of containerization over traditional virtualization?">> >>)
    @@ ("generate_e_commerce_specialist_questions" :>
        << <<"What is your experience with e-commerce platforms like Shopify or Magento?">>,
           <<"How do you optimize the user experience for e-commerce websites?">>,
           <<"Describe a successful strategy you used to increase online sales.">>,
           <<"What tools do you use for tracking and analyzing e-commerce metrics?">>,
           <<"How do you ensure security and compliance for online transactions?">>,
           <<"Can you share your approach to managing product catalogs and inventory online?">> >>)
    @@ ("generate_it_trainer_questions" :>
        << <<"What is your experience in developing and delivering IT training programs?">>,
           <<"How do you assess the effectiveness of your training sessions?">>,
           <<"Describe a time you trained a team on a new technology or tool.">>,
           <<"What methods do you use to engage learners during IT training?">>,
           <<"How do you customize training materials for different skill levels?">>,
           <<"What tools and platforms do you use for online IT training?">> >>)
    @@ ("generate_technical_project_manager_questions" :>
        << <<"What is your experience in managing technical projects from start to finish?">>,
           <<"How do you ensure projects stay on time and within budget?">>,
           <<"Describe your approach to risk management in technical projects.">>,
           <<"What tools do you use for project planning and tracking progress?">>,
           <<"How do you handle changes in project scope or requirements?">>,
           <<"Can you share an example of a challenging project you successfully delivered?">> >>)
    @@ ("generate_mobile_ux_designer_questions" :>
        << <<"What is your process for designing user-friendly mobile interfaces?">>,
           <<"How do you conduct usability testing for mobile applications?">>,
           <<"Describe your experience with wireframing and prototyping tools.">>,
           <<"What are the key considerations for designing cross-platform mobile apps?">>,
           <<"How do you stay updated with trends in mobile UX design?">>,
           <<"Can you share an example of a successful mobile UX design project you worked on?">> >>)
    @@ ("generate_noc_technician_questions" :>
        << <<"How do you monitor and troubleshoot network issues in real-time?">>,
           <<"What tools do you use for network performance monitoring?">>,
           <<"Describe your experience with handling network outages and escalations.">>,
           <<"How do you prioritize incidents in a high-pressure environment?">>,
           <<"What protocols and standards do you follow for network maintenance?">>,
           <<"Can you explain your process for documenting recurring network problems?">> >>)
    @@ ("generate_release_manager_questions" :>
        << <<"What is your approach to coordinating software releases across teams?">>,
           <<"How do you ensure a smooth deployment process with minimal downtime?">>,
           <<"Describe your experience with version control and CI/CD tools.">>,
           <<"How do you manage and mitigate risks during a release?">>,
           <<"What is your process for tracking post-release issues and feedback?">>,
           <<"Can you provide an example of a challenging release you successfully managed?">> >>)
    @@ ("generate_it_change_manager_questions" :>
        << <<"What is your process for managing IT changes in an organization?">>,
           <<"How do you communicate and coordinate with stakeholders during changes?">>,
           <<"Describe your experience with change management frameworks like ITIL.">>,
           <<"How do you assess the risks and impact of proposed changes?">>,
           <<"What tools do you use to track and document IT change requests?">>,
           <<"Can you share an example of a successful IT change implementation?">> >>)
    @@ ("generate_data_governance_analyst_questions" :>
        << <<"What is your experience with establishing data governance policies?">>,
           <<"How do you ensure data compliance with regulations like GDPR or CCPA?">>,
           <<"Describe your process for managing data quality and integrity.">>,
           <<"What tools do you use for data lineage and cataloging?">>,
           <<"How do you collaborate with stakeholders to enforce data governance?">>,
           <<"Can you provide an example of improving data governance in a previous role?">> >>)
    @@ ("generate_performance_engineer_questions" :>
        << <<"What tools do you use to identify and resolve system performance issues?">>,
           <<"Describe your experience with load testing and performance benchmarking.">>,
           <<"How do you optimize application performance under heavy loads?">>,
           <<"What metrics do you prioritize when evaluating system performance?">>,
           <<"How do you troubleshoot and address performance bottlenecks?">>,
           <<"Can you share an example of a successful performance optimization project?">> >>)
    @@ ("generate_bi_analyst_questions" :>
        << <<"What is your experience with BI tools like Tableau or Power BI?">>,
           <<"How do you design and build interactive dashboards for stakeholders?">>,
           <<"Describe your process for gathering and analyzing business requirements.">>,
           <<"What methods do you use to validate data accuracy and insights?">>,
           <<"How do you ensure BI solutions align with business goals?">>,
           <<"Can you provide an example of using BI to drive business decisions?">> >>)
    @@ ("generate_sap_consultant_questions" :>
        << <<"What modules of SAP are you most experienced with?">>,
           <<"How do you gather requirements and customize SAP solutions for clients?">>,
           <<"Describe a successful SAP implementation project you worked on.">>,
           <<"What is your approach to troubleshooting SAP system issues?">>,
           <<"How do you ensure data migration and integration with SAP systems?">>,
           <<"Can you share your experience with SAP S/4HANA and its benefits?">> >>)
    @@ ("generate_digital_transformation_consultant_questions" :>
        << <<"What is your approach to identifying areas for digital transformation?">>,
           <<"Describe your experience with implementing new technologies in organizations.">>,
           <<"How do you measure the success of digital transformation initiatives?">>,
           <<"What methods do you use to manage resistance to change during transformations?">>,
           <<"How do you ensure alignment between digital strategies and business goals?">>,
           <<"Can you provide an example of a successful digital transformation project?">> >>)
    @@ ("generate_it_asset_manager_questions" :>
        << <<"What is your process for tracking and managing IT assets?">>,
           <<"How do you ensure compliance with software licenses and regulations?">>,
           <<"Describe your experience with IT asset management tools.">>,
           <<"What methods do you use to optimize the lifecycle of IT assets?">>,
           <<"How do you handle asset disposals and data security during decommissioning?">>,
           <<"Can you share an example of improving efficiency through IT asset management?">> >>)
    @@ ("generate_game_designer_questions" :>
        << <<"What is your process for creating engaging gameplay mechanics?">>,
           <<"How do you balance storytelling, design, and user experience in games?">>,
           <<"Describe your experience with game engines like Unity or Unreal Engine.">>,
           <<"What methods do you use to prototype and test game concepts?">>,
           <<"How do you collaborate with developers and artists during game production?">>,
           <<"Can you share an example of a successful game design project you worked on?">> >>)
    @@ ("generate_social_media_analyst_questions" :>
        << <<"What tools do you use to monitor and analyze social media performance?">>,
           <<"How do you measure the success of social media campaigns?">>,
           <<"Describe your approach to audience segmentation and targeting.">>,
           <<"How do you use social media analytics to drive engagement strategies?">>,
           <<"What methods do you use to track brand sentiment and competitor analysis?">>,
           <<"Can you share an example of improving ROI through social media insights?">> >>)

\* The dictionary built by generate_questions_for_job: title -> questions.
questions ==
    (<<"Software", " ", "Engineer">> :> generated_questions["generate_software_engineer_questions"])
    @@ (<<"Data", " ", "Scientist">> :> generated_questions["generate_data_scientist_questions"])
    @@ (<<"Cloud", " ", "Engineer">> :> generated_questions["generate_cloud_engineer_questions"])
    @@ (<<"Full", " ", "Stack", " ", "Developer">> :> generated_questions["generate_full_stack_developer_questions"])
    @@ (<<"DevOps", " ", "Engineer">> :> generated_questions["generate_devops_engineer_questions"])
    @@ (<<"Front", " ", "End", " ", "Developer">> :> generated_questions["generate_front_end_developer_questions"])
    @@ (<<"Back", " ", "End", " ", "Developer">> :> generated_questions["generate_back_end_developer_questions"])
    @@ (<<"Mobile", " ", "Application", " ", "Developer">> :> generated_questions["generate_mobile_application_developer_questions"])
    @@ (<<"Cybersecurity", " ", "Analyst">> :> generated_questions["generate_cybersecurity_analyst_questions"])
    @@ (<<"Database", " ", "Administrator">> :> generated_questions["generate_database_administrator_questions"])
    @@ (<<"System", " ", "Administrator">> :> generated_questions["generate_system_administrator_questions"])
    @@ (<<"Network", " ", "Engineer">> :> generated_questions["generate_network_engineer_questions"])
    @@ (<<"IT", " ", "Support", " ", "Specialist">> :> generated_questions["generate_it_support_specialist_questions"])
    @@ (<<"Web", " ", "Developer">> :> generated_questions["generate_web_developer_questions"])
    @@ (<<"Product", " ", "Manager">> :> generated_questions["generate_product_manager_questions"])
    @@ (<<"Machine", " ", "Learning", " ", "Engineer">> :> generated_questions["generate_machine_learning_engineer_questions"])
    @@ (<<"IT", " ", "Project", " ", "Manager">> :> generated_questions["generate_it_project_manager_questions"])
    @@ (<<"Business", " ", "Analyst">> :> generated_questions["generate_business_analyst_questions"])
    @@ (<<"Technical", " ", "Support", " ", "Engineer">> :> generated_questions["generate_technical_support_engineer_questions"])
    @@ (<<"Quality", " ", "Assurance", " ", "Engineer">> :> generated_questions["generate_quality_assurance_engineer_questions"])
    @@ (<<"Data", " ", "Engineer">> :> generated_questions["generate_data_engineer_questions"])
    @@ (<<"Artificial", " ", "Intelligence", " ", "Engineer">> :> generated_questions["generate_ai_engineer_questions"])
    @@ (<<"UI/UX", " ", "Designer">> :> generated_questions["generate_ux_ui_designer_questions"])
    @@ (<<"IT", " ", "Consultant">> :> generated_questions["generate_it_consultant_questions"])
    @@ (<<"Solutions", " ", "Architect">> :> generated_questions["generate_solutions_architect_questions"])
    @@ (<<"IT", " ", "Operations", " ", "Manager">> :> generated_questions["generate_it_operations_manager_questions"])
    @@ (<<"Chief", " ", "Technology", " ", "Officer">> :> generated_questions["generate_cto_questions"])
    @@ (<<"Security", " ", "Engineer">> :> generated_questions["generate_security_engineer_questions"])
    @@ (<<"IT", " ", "Auditor">> :> generated_questions["generate_it_auditor_questions"])
    @@ (<<"Software", " ", "Architect">> :> generated_questions["generate_software_architect_questions"])
    @@ (<<"Scrum", " ", "Master">> :> generated_questions["generate_scrum_master_questions"])
    @@ (<<"Technical", " ", "Writer">> :> generated_questions["generate_technical_writer_questions"])
    @@ (<<"Network", " ", "Security", " ", "Analyst">> :> generated_questions["generate_network_security_analyst_questions"])
    @@ (<<"Game", " ", "Developer">> :> generated_questions["generate_game_developer_questions"])
    @@ (<<"Embedded", " ", "Systems", " ", "Engineer">> :> generated_questions["generate_embedded_systems_engineer_questions"])
    @@ (<<"ERP", " ", "Consultant">> :> generated_questions["generate_erp_consultant_questions"])
    @@ (<<"Salesforce", " ", "Developer">> :> generated_questions["generate_salesforce_developer_questions"])
    @@ (<<"Big", " ", "Data", " ", "Engineer">> :> generated_questions["generate_big_data_engineer_questions"])
    @@ (<<"BI", " ", "Developer">> :> generated_questions["generate_bi_developer_questions"])
    @@ (<<"Information", " ", "Security", " ", "Analyst">> :> generated_questions["generate_information_security_analyst_questions"])
    @@ (<<"Robotics", " ", "Engineer">> :> generated_questions["generate_robotics_engineer_questions"])
    @@ (<<"Cloud", " ", "Solutions", " ", "Architect">> :> generated_questions["generate_cloud_solutions_architect_questions"])
    @@ (<<"Computer", " ", "Vision", " ", "Engineer">> :> generated_questions["generate_computer_vision_engineer_questions"])
    @@ (<<"Site", " ", "Reliability", " ", "Engineer">> :> generated_questions["generate_site_reliability_engineer_questions"])
    @@ (<<"Penetration", " ", "Tester">> :> generated_questions["generate_penetration_tester_questions"])
    @@ (<<"Data", " ", "Analyst">> :> generated_questions["generate_data_analyst_questions"])
    @@ (<<"Blockchain", " ", "Developer">> :> generated_questions["generate_blockchain_developer_questions"])
    @@ (<<"IT", " ", "Compliance", " ", "Specialist">> :> generated_questions["generate_it_compliance_specialist_questions"])
    @@ (<<"Software", " ", "Development", " ", "Manager">> :> generated_questions["generate_software_development_manager_questions"])
    @@ (<<"Virtual", " ", "Reality", " ", "Developer">> :> generated_questions["generate_virtual_reality_developer_questions"])
    @@ (<<"Infrastructure", " ", "Engineer">> :> generated_questions["generate_infrastructure_engineer_questions"])
    @@ (<<"IT", " ", "Operations", " ", "Analyst">> :> generated_questions["generate_it_operations_analyst_questions"])
    @@ (<<"Digital", " ", "Marketing", " ", "Specialist">> :> generated_questions["generate_digital_marketing_specialist_questions"])
    @@ (<<"Network", " ", "Architect">> :> generated_questions["generate_network_architect_questions"])
    @@ (<<"Help", " ", "Desk", " ", "Technician">> :> generated_questions["generate_help_desk_technician_questions"])
    @@ (<<"Configuration", " ", "Manager">> :> generated_questions["generate_configuration_manager_questions"])
    @@ (<<"Systems", " ", "Analyst">> :> generated_questions["generate_systems_analyst_questions"])
    @@ (<<"Database", " ", "Developer">> :> generated_questions["generate_database_developer_questions"])
    @@ (<<"IT", " ", "Business", " ", "Partner">> :> generated_questions["generate_it_business_partner_questions"])
    @@ (<<"Cloud", " ", "Consultant">> :> generated_questions["generate_cloud_consultant_questions"])
    @@ (<<"Virtualization", " ", "Engineer">> :> generated_questions["generate_virtualization_engineer_questions"])
    @@ (<<"E-commerce", " ", "Specialist">> :> generated_questions["generate_e_commerce_specialist_questions"])
    @@ (<<"IT", " ", "Trainer">> :> generated_questions["generate_it_trainer_questions"])
    @@ (<<"Technical", " ", "Project", " ", "Manager">> :> generated_questions["generate_technical_project_manager_questions"])
    @@ (<<"Mobile", " ", "UX", " ", "Designer">> :> generated_questions["generate_mobile_ux_designer_questions"])
    @@ (<<"Network", " ", "Operations", " ", "Center", " ", "(NOC)", " ", "Technician">> :> generated_questions["generate_noc_technician_questions"])
    @@ (<<"Release", " ", "Manager">> :> generated_questions["generate_release_manager_questions"])
    @@ (<<"IT", " ", "Change", " ", "Manager">> :> generated_questions["generate_it_change_manager_questions"])
    @@ (<<"Data", " ", "Governance", " ", "Analyst">> :> generated_questions["generate_data_governance_analyst_questions"])
    @@ (<<"Performance", " ", "Engineer">> :> generated_questions["generate_performance_engineer_questions"])
    @@ (<<"BI", " ", "Analyst">> :> generated_questions["generate_bi_analyst_questions"])
    @@ (<<"SAP", " ", "Consultant">> :> generated_questions["generate_sap_consultant_questions"])
    @@ (<<"Digital", " ", "Transformation", " ", "Consultant">> :> generated_questions["generate_digital_transformation_consultant_questions"])
    @@ (<<"IT", " ", "Asset", " ", "Manager">> :> generated_questions["generate_it_asset_manager_questions"])
    @@ (<<"Game", " ", "Designer">> :> generated_questions["generate_game_designer_questions"])
    @@ (<<"Social", " ", "Media", " ", "Analyst">> :> generated_questions["generate_social_media_analyst_questions"])

\* The module-level list job_titles (the matcher's local of the same name
\* shadows it).
job_titles_list ==
    << <<"Software", " ", "Engineer">>,
       <<"Data", " ", "Scientist">>,
       <<"Cloud", " ", "Engineer">>,
       <<"Full", " ", "Stack", " ", "Developer">>,
       <<"DevOps", " ", "Engineer">>,
       <<"Front", " ", "End", " ", "Developer">>,
       <<"Back", " ", "End", " ", "Developer">>,
       <<"Mobile", " ", "Application", " ", "Developer">>,
       <<"Cybersecurity", " ", "Analyst">>,
       <<"Database", " ", "Administrator">>,
       <<"System", " ", "Administrator">>,
       <<"Network", " ", "Engineer">>,
       <<"IT", " ", "Support", " ", "Specialist">>,
       <<"Web", " ", "Developer">>,
       <<"Product", " ", "Manager">>,
       <<"Machine", " ", "Learning", " ", "Engineer">>,
       <<"IT", " ", "Project", " ", "Manager">>,
       <<"Business", " ", "Analyst">>,
       <<"Technical", " ", "Support", " ", "Engineer">>,
       <<"Quality", " ", "Assurance", " ", "Engineer">>,
       <<"Data", " ", "Engineer">>,
       <<"Artificial", " ", "Intelligence", " ", "Engineer">>,
       <<"UX/UI", " ", "Designer">>,
       <<"IT", " ", "Consultant">>,
       <<"Solutions", " ", "Architect">>,
       <<"IT", " ", "Operations", " ", "Manager">>,
       <<"Chief", " ", "Technology", " ", "Officer", " ", "(CTO)">>,
       <<"Security", " ", "Engineer">>,
       <<"IT", " ", "Auditor">>,
       <<"Software", " ", "Architect">>,
       <<"Scrum", " ", "Master">>,
       <<"Technical", " ", "Writer">>,
       <<"Network", " ", "Security", " ", "Analyst">>,
       <<"Game", " ", "Developer">>,
       <<"Embedded", " ", "Systems", " ", "Engineer">>,
       <<"ERP", " ", "Consultant">>,
       <<"Salesforce", " ", "Developer">>,
       <<"Big", " ", "Data", " ", "Engineer">>,
       <<"BI", " ", "Developer">>,
       <<"Information", " ", "Security", " ", "Analyst">>,
       <<"Robotics", " ", "Engineer">>,
       <<"Cloud", " ", "Solutions", " ", "Architect">>,
       <<"Computer", " ", "Vision", " ", "Engineer">>,
       <<"Site", " ", "Reliability", " ", "Engineer">>,
       <<"Penetration", " ", "Tester">>,
       <<"Data", " ", "Analyst">>,
       <<"Blockchain", " ", "Developer">>,
       <<"IT", " ", "Compliance", " ", "Specialist">>,
       <<"Software", " ", "Development", " ", "Manager">>,
       <<"Virtual", " ", "Reality", " ", "Developer">>,
       <<"Infrastructure", " ", "Engineer">>,
       <<"IT", " ", "Operations", " ", "Analyst">>,
       <<"Digital", " ", "Marketing", " ", "Specialist">>,
       <<"Network", " ", "Architect">>,
       <<"Help", " ", "Desk", " ", "Technician">>,
       <<"Configuration", " ", "Manager">>,
       <<"Systems", " ", "Analyst">>,
       <<"Database", " ", "Developer">>,
       <<"IT", " ", "Business", " ", "Partner">>,
       <<"Cloud", " ", "Consultant">>,
       <<"Virtualization", " ", "Engineer">>,
       <<"E-commerce", " ", "Specialist">>,
       <<"IT", " ", "Trainer">>,
       <<"Technical", " ", "Project", " ", "Manager">>,
       <<"Mobile", " ", "UX", " ", "Designer">>,
       <<"Network", " ", "Operations", " ", "Center", " ", "(NOC)", " ", "Technician">>,
       <<"Release", " ", "Manager">>,
       <<"IT", " ", "Change", " ", "Manager">>,
       <<"Data", " ", "Governance", " ", "Analyst">>,
       <<"Performance", " ", "Engineer">>,
       <<"BI", " ", "Analyst">>,
       <<"SAP", " ", "Consultant">>,
       <<"Digital", " ", "Transformation", " ", "Consultant">>,
       <<"IT", " ", "Asset", " ", "Manager">>,
       <<"Game", " ", "Designer">>,
       <<"Social", " ", "Media", " ", "Analyst">> >>

\* The characters str.strip() removes that occur in the model's inputs.
Whitespace == {" ", "\t", "\n"}

RECURSIVE lstrip(_)
\* s without its leading whitespace.
lstrip(s) ==
    IF s # <<>> /\ Head(s) \in Whitespace THEN lstrip(Tail(s)) ELSE s

RECURSIVE rstrip(_)
\* s without its trailing whitespace.
rstrip(s) ==
    IF s # <<>> /\ s[Len(s)] \in Whitespace
    THEN rstrip(SubSeq(s, 1, Len(s) - 1))
    ELSE s

\* A trim that leaves the trailing whitespace in place.
strip_leading_only(s) == lstrip(s)

\* job_title.strip()
strip(s) == rstrip(lstrip(s))

\* A fallback list that lost its last question.
FallbackQuestionsShort(title) ==
    << <<"What relevant experience do you have for the role of ">> \o title \o <<"?">>,
       <<"What technologies have you worked with that are essential for ">> \o title \o <<"?">>,
       <<"Describe a challenge you faced in a similar role to ">> \o title
           \o <<" and how you resolved it.">> >>

\* A fallback list whose last question does not name the title.
FallbackQuestionsUnnamed(title) ==
    << <<"What relevant experience do you have for the role of ">> \o title \o <<"?">>,
       <<"What technologies have you worked with that are essential for ">> \o title \o <<"?">>,
       <<"Describe a challenge you faced in a similar role to ">> \o title
           \o <<" and how you resolved it.">>,
       <<"How would you approach a project in this position?">> >>

\* The default questions, with the title interpolated into each.
FallbackQuestions(title) ==
    << <<"What relevant experience do you have for the role of ">> \o title \o <<"?">>,
       <<"What technologies have you worked with that are essential for ">> \o title \o <<"?">>,
       <<"Describe a challenge you faced in a similar role to ">> \o title
           \o <<" and how you resolved it.">>,
       <<"How would you approach a project in the position of ">> \o title \o <<"?">> >>

\* Strings that differ from a key of the dictionary only in letter case,
\* each with that key.
CaseVariants ==
    (<<"software", " ", "engineer">> :> <<"Software", " ", "Engineer">>)
    @@ (<<"SOFTWARE", " ", "ENGINEER">> :> <<"Software", " ", "Engineer">>)
    @@ (<<"data", " ", "Scientist">> :> <<"Data", " ", "Scientist">>)
    @@ (<<"It", " ", "Auditor">> :> <<"IT", " ", "Auditor">>)

\* A lookup that ignores letter case.
generate_questions_ignoring_case(title) ==
    LET stripped == strip(title)
        key == IF stripped \in DOMAIN CaseVariants
               THEN CaseVariants[stripped]
               ELSE stripped
    IN  IF key \in DOMAIN questions
        THEN questions[key]
        ELSE FallbackQuestions(stripped)

generate_questions_for_job(title) ==
    LET stripped == strip(title)
    IN  IF stripped \in DOMAIN questions
        THEN questions[stripped]
        ELSE FallbackQuestions(stripped)

\* Strings of at most n whitespace characters.
Pads(n) == UNION {[1..k -> Whitespace] : k \in 0..n}

\* Titles that are no key of the dictionary: the empty string, an unknown
\* role, a known title with a tab or with two spaces between its words, the
\* two entries of job_titles_list that the dictionary spells differently,
\* and known titles in another letter case.
UnknownTitles ==
    { <<>>,
      <<"Astronaut">>,
      <<"Software", "\t", "Engineer">>,
      <<"Software", " ", " ", "Engineer">>,
      <<"UX/UI", " ", "Designer">>,
      <<"Chief", " ", "Technology", " ", "Officer", " ", "(CTO)">> }
    \cup DOMAIN CaseVariants

\* The titles the arguments are built around; none starts or ends with
\* whitespace.
TitleCores == (DOMAIN questions) \cup UnknownTitles

\* generate_questions_for_job(left + core + right)
AskQuestions(left, core, right) ==
    /\ qpc = "idle"
    /\ title_core' = core
    /\ job_title_arg' = left \o core \o right
    /\ job_title' = strip(left \o core \o right)
    /\ returned_questions' = generate_questions_for_job(left \o core \o right)
    /\ qpc' = "returned"
    /\ UNCHANGED non_question_vars

\* The caller has the list.
QuestionsDone ==
    /\ qpc = "returned"
    /\ qpc' = "idle"
    /\ title_core' = <<>>
    /\ job_title_arg' = <<>>
    /\ job_title' = <<>>
    /\ returned_questions' = <<>>
    /\ UNCHANGED non_question_vars

QuestionNext ==
    \/ \E left \in Pads(MaxPad), right \in Pads(MaxPad) :
           \E core \in TitleCores : AskQuestions(left, core, right)
    \/ QuestionsDone

QuestionSpec == Init /\ [][QuestionNext]_vars

(***************************************************************************)
(* provide_feedback.  An answer is a string in the token form of the       *)
(* question bank; its length is the number of its characters.              *)
(***************************************************************************)
\* Number of characters of every word of the model's answers.
WordLength ==
    ("I" :> 1) @@ ("led" :> 3) @@ ("the" :> 3) @@ ("migration." :> 10)
    @@ ("migrations." :> 11)

\* len(s)
StringLength(s) ==
    SumOver([i \in 1..Len(s) |->
                 IF s[i] \in Whitespace THEN 1 ELSE WordLength[s[i]]],
            1..Len(s))

\* A test that also counts an answer of exactly 20 characters.
IsSubstantiveFrom20(answer) == StringLength(strip(answer)) >= 20

\* len(answer.strip()) > 20
IsSubstantive(answer) == StringLength(strip(answer)) > 20

RECURSIVE CountLeadingSubstantive(_)
\* A loop that stops at the first answer that is not substantive.
CountLeadingSubstantive(list) ==
    IF list = <<>> \/ ~IsSubstantive(Head(list)) THEN 0
    ELSE 1 + CountLeadingSubstantive(Tail(list))

\* The caller's list after the call: the loop only reads it, and
\* answer.strip() builds a new string and is assigned to nothing.
answers_after_call(list) == list

\* A loop that adds 1 for every answer, substantive or not.
CountEveryAnswer(list) == Len(list)

RECURSIVE CountSubstantive(_)
\* The loop of lines 1119-1121: score += 1 for every substantive answer.
CountSubstantive(list) ==
    IF list = <<>> THEN 0
    ELSE (IF IsSubstantive(Head(list)) THEN 1 ELSE 0) + CountSubstantive(Tail(list))

ExcellentFeedback == "Excellent! You have strong responses for this role."

GoodFeedback == "Good! But there's room for improvement in some answers."

NeedsImprovementFeedback == "Needs improvement. Consider revising your answers."

\* A grading whose thresholds are exclusive.
FeedbackForExclusive(s, n) ==
    IF 10 * s > 8 * n THEN ExcellentFeedback
    ELSE IF 10 * s > 5 * n THEN GoodFeedback
    ELSE NeedsImprovementFeedback

\* The if / elif / else of lines 1124-1129.  score >= len(answers) * 0.8 and
\* score >= len(answers) * 0.5 are written in tenths: the float products
\* decide as the exact ones do for every list of fewer than 200 answers.
FeedbackFor(s, n) ==
    IF 10 * s >= 8 * n THEN ExcellentFeedback
    ELSE IF 10 * s >= 5 * n THEN GoodFeedback
    ELSE NeedsImprovementFeedback

\* The answers of the model: the empty string, 25 blanks, 20 characters
\* between whitespace, and 21 characters after a tab.
AnswerTexts ==
    { <<>>,
      [i \in 1..25 |-> " "],
      <<" ", "I", " ", "led", " ", "the", " ", "migration.", "\n">>,
      <<"\t", "I", " ", "led", " ", "the", " ", "migrations.">> }

\* provide_feedback(list)
GiveFeedback(list) ==
    /\ fpc = "idle"
    /\ answers_at_call' = list
    /\ answers' = answers_after_call(list)
    /\ score' = CountSubstantive(list)
    /\ feedback' = FeedbackFor(CountSubstantive(list), Len(list))
    /\ fpc' = "returned"
    /\ UNCHANGED non_feedback_vars

\* The caller has the pair.
FeedbackDone ==
    /\ fpc = "returned"
    /\ fpc' = "idle"
    /\ answers' = <<>>
    /\ answers_at_call' = <<>>
    /\ score' = 0
    /\ feedback' = ""
    /\ UNCHANGED non_feedback_vars

FeedbackNext ==
    \/ \E n \in 0..MaxAnswers : \E list \in [1..n -> AnswerTexts] : GiveFeedback(list)
    \/ FeedbackDone

FeedbackSpec == Init /\ [][FeedbackNext]_vars

(***************************************************************************)
(* extract_text_from_pdf, one step per statement.                          *)
(***************************************************************************)
\* What page.get_text() gives for the pages of the model: nothing (a scanned
\* page), one line, and two lines.
PageTexts ==
    { <<>>, <<"Python", "\n">>, <<"sql", "\n">>, <<"The", " ", "c", "\n", "Python", "\n">> }

\* The documents of at most max pages, and a stream that is no document.
PdfDocuments(max) ==
    { [parseable |-> FALSE, pages |-> <<>>] }
    \cup UNION { { [parseable |-> TRUE, pages |-> pages] : pages \in [1..n -> PageTexts] }
                 : n \in 0..max }

\* A loop body that puts the page in front of the text.
AddPageInFront(t, page) == page \o t

\* text += page.get_text()
AddPage(t, page) == t \o page

\* A function that closes the document by a call after the loop, which an
\* exception in the loop skips.
with_exit_after_loop_only(h, raising) == IF raising THEN h ELSE "closed"

\* Leaving the with block: Document.__exit__ closes the document, whether the
\* block ends normally or by an exception.
with_exit(h, raising) == "closed"

\* text = "" and the with statement: fitz.open raises or the loop is entered.
\* bad is the page of this document that cannot be read, if any.
ExtractOpen(pdf, bad) ==
    /\ epc = "idle"
    /\ epdf' = pdf
    /\ bad_page' = bad
    /\ text' = <<>>
    /\ page_index' = 0
    /\ IF OpenRaises(pdf)
       THEN /\ epc' = "raised"
            /\ handle' = "none"
       ELSE /\ epc' = "loop"
            /\ handle' = "open"
    /\ UNCHANGED non_extract_vars

\* One iteration of for page in pdf: the text of the page is added, or
\* get_text() raises and the exception leaves the with block.
ExtractPage ==
    /\ epc = "loop"
    /\ page_index < Len(epdf.pages)
    /\ IF page_index + 1 = bad_page
       THEN /\ epc' = "raised"
            /\ handle' = with_exit(handle, TRUE)
            /\ UNCHANGED <<text, page_index>>
       ELSE /\ text' = AddPage(text, epdf.pages[page_index + 1])
            /\ page_index' = page_index + 1
            /\ UNCHANGED <<epc, handle>>
    /\ UNCHANGED <<epdf, bad_page, non_extract_vars>>

\* The loop is exhausted: the with block is left and text is returned.
ExtractReturn ==
    /\ epc = "loop"
    /\ page_index = Len(epdf.pages)
    /\ epc' = "returned"
    /\ handle' = with_exit(handle, FALSE)
    /\ UNCHANGED <<epdf, page_index, text, bad_page, non_extract_vars>>

\* The caller has the string (or the exception).
ExtractDone ==
    /\ epc \in {"returned", "raised"}
    /\ epc' = "idle"
    /\ epdf' = NoPdf
    /\ page_index' = 0
    /\ text' = <<>>
    /\ bad_page' = 0
    /\ handle' = "none"
    /\ UNCHANGED non_extract_vars

ExtractNext ==
    \/ \E pdf \in PdfDocuments(MaxPages) : \E bad \in 0..Len(pdf.pages) :
           ExtractOpen(pdf, bad)
    \/ ExtractPage
    \/ ExtractReturn
    \/ ExtractDone

ExtractSpec == Init /\ [][ExtractNext]_vars

(***************************************************************************)
(* extract_skills_using_ai.  A piece of text is a token of the string; the *)
(* tokenizer maps the pieces of a string to ids and back without loss, so  *)
(* a sequence of ids is kept as the sequence of its pieces.                *)
(***************************************************************************)
\* outputs = model.generate(**inputs, max_new_tokens=600)
max_new_tokens == 600

\* The end-of-text token of the GPT-Neo tokenizer.
EosToken == "<|endoftext|>"

\* The f-string of lines 93-99 up to {resume_text}.
PromptHead ==
    <<"\n", " ", " ", " ", " ",
      "You are a highly intelligent resume parser. Your task is to extract the skills section from the following resume text. ",
      "\n", " ", " ", " ", " ",
      "Return only the text below the 'Skills' section. If the 'Skills' section is not found, return an empty string.",
      "\n", "\n", " ", " ", " ", " ",
      "Resume Text:",
      "\n", " ", " ", " ", " ">>

\* The f-string of lines 93-99 after {resume_text}.
PromptTail == <<"\n", " ", " ", " ", " ">>

\* prompt = f"""...{resume_text}..."""
BuildPrompt(resume) == PromptHead \o resume \o PromptTail

\* model.generate of a decoder-only (causal) language model: the returned
\* sequence is the input ids followed by the newly generated ones.
generate(input_ids, new_tokens) == input_ids \o new_tokens

\* tokenizer.decode(ids, skip_special_tokens=True)
decode(ids) == SelectSeq(ids, LAMBDA t : t # EosToken)

\* The resumes of the model.
SkillsResumes ==
    { <<>>,
      <<"Jane", " ", "Doe", "\n", "Skills", "\n", "Python">>,
      <<"Python", " ", "sql">>,
      <<" ", "Jane", " ", "Doe", "\n">> }

\* What the model may generate: up to max pieces of text, then either the
\* end-of-text token or nothing more.
Generations(max) ==
    LET bodies == UNION { [1..n -> {"Python", "\n"}] : n \in 0..max }
    IN  { b : b \in bodies } \cup { Append(b, EosToken) : b \in bodies }

\* The call, lines 93-100: the prompt is built and tokenized.
SkillsCall(resume) ==
    /\ spc = "idle"
    /\ skills_resume_text' = resume
    /\ prompt' = BuildPrompt(resume)
    /\ spc' = "prompted"
    /\ UNCHANGED <<completion, outputs, response, non_skills_vars>>

\* Line 101: the model generates some tokens, at most max_new_tokens.
SkillsGenerate(new_tokens) ==
    /\ spc = "prompted"
    /\ Len(new_tokens) <= max_new_tokens
    /\ completion' = new_tokens
    /\ outputs' = generate(prompt, new_tokens)
    /\ spc' = "generated"
    /\ UNCHANGED <<skills_resume_text, prompt, response, non_skills_vars>>

\* Lines 102-103: decode, and return response.strip().
SkillsReturn ==
    /\ spc = "generated"
    /\ response' = decode(outputs)
    /\ spc' = "returned"
    /\ UNCHANGED <<skills_resume_text, prompt, completion, outputs, non_skills_vars>>

\* The caller has the string.
SkillsDone ==
    /\ spc = "returned"
    /\ spc' = "idle"
    /\ skills_resume_text' = <<>>
    /\ prompt' = <<>>
    /\ completion' = <<>>
    /\ outputs' = <<>>
    /\ response' = <<>>
    /\ UNCHANGED non_skills_vars

SkillsNext ==
    \/ \E resume \in SkillsResumes : SkillsCall(resume)
    \/ \E new_tokens \in Generations(MaxGenerated) : SkillsGenerate(new_tokens)
    \/ SkillsReturn
    \/ SkillsDone

SkillsSpec == Init /\ [][SkillsNext]_vars

(***************************************************************************)
(* Calls of generate_questions_for_job and provide_feedback one after the  *)
(* other, by a caller that keeps and modifies the lists it is given.       *)
(***************************************************************************)
\* A dictionary kept from one call to the next: under key it holds the very
\* list object an earlier call returned, as the caller left it.
questions_kept(key, list) ==
    IF key \in DOMAIN questions THEN [questions EXCEPT ![key] = list] ELSE questions

\* questions = {...} of lines 1012-1089 is evaluated at every call, and every
\* generate_..._questions() returns a new list: the dictionary of a call
\* holds nothing of what the caller has of an earlier one.
questions_built(key, list) == questions

\* The titles asked for when calls follow one another.
AskedTitles ==
    { <<"Software", " ", "Engineer">>,
      <<" ", "Data", " ", "Scientist">>,
      <<"Astronaut", "\n">>,
      <<"software", " ", "engineer">> }

\* generate_questions_for_job(title), with the caller's list in existence.
AskAgain(title) ==
    /\ qpc = "idle"
    /\ title_core' = strip(title)
    /\ job_title_arg' = title
    /\ job_title' = strip(title)
    /\ LET dict == questions_built(held_key, held)
       IN  returned_questions' = IF strip(title) \in DOMAIN dict
                                 THEN dict[strip(title)]
                                 ELSE FallbackQuestions(strip(title))
    /\ qpc' = "returned"
    /\ UNCHANGED non_question_vars

\* The caller keeps the list it was given.
CallerKeeps ==
    /\ qpc = "returned"
    /\ held' = returned_questions
    /\ held_key' = job_title
    /\ qpc' = "idle"
    /\ title_core' = <<>>
    /\ job_title_arg' = <<>>
    /\ job_title' = <<>>
    /\ returned_questions' = <<>>
    /\ UNCHANGED <<match_vars, feedback_vars, extract_vars, skills_vars, format_vars>>

\* The caller removes the first question of the list it keeps (once).
CallerModifies ==
    /\ Len(held) \in {4, 6}
    /\ held' = Tail(held)
    /\ UNCHANGED <<held_key, non_caller_vars>>

CallsNext ==
    \/ \E title \in AskedTitles : AskAgain(title)
    \/ CallerKeeps
    \/ CallerModifies
    \/ QuestionsDone
    \/ \E n \in 0..MaxInterleavedAnswers : \E list \in [1..n -> AnswerTexts] :
           GiveFeedback(list)
    \/ FeedbackDone

CallsSpec == Init /\ [][CallsNext]_vars

(***************************************************************************)
(* format_resume_text.  The text is a string in token form; a line is what *)
(* lies between two "\n" of it.                                            *)
(***************************************************************************)
RECURSIVE split(_)
\* s.split("\n"): the pieces between the newlines, at least one piece.
split(s) ==
    IF \A i \in 1..Len(s) : s[i] # "\n" THEN <<s>>
    ELSE LET i == CHOOSE k \in 1..Len(s) :
                      /\ s[k] = "\n"
                      /\ \A j \in 1..(k - 1) : s[j] # "\n"
         IN  <<SubSeq(s, 1, i - 1)>> \o split(SubSeq(s, i + 1, Len(s)))

RECURSIVE join(_)
\* "\n".join(items)
join(items) ==
    IF items = <<>> THEN <<>>
    ELSE IF Len(items) = 1 THEN items[1]
    ELSE items[1] \o <<"\n">> \o join(Tail(items))

\* The words with a lower-case letter, and those without any cased letter.
LowerCaseWords == {"Python", "sql"}

UncasedWords == {"2020"}

\* line.isupper(): the line has a cased character and none in lower case.
isupper(line) ==
    /\ \E i \in 1..Len(line) :
           line[i] \notin Whitespace /\ line[i] \notin UncasedWords
    /\ \A i \in 1..Len(line) : line[i] \notin LowerCaseWords

\* len(line.split()): the number of runs of characters that are no whitespace.
WordCount(line) ==
    Cardinality({i \in 1..Len(line) :
                    /\ line[i] \notin Whitespace
                    /\ (i = 1 \/ line[i - 1] \in Whitespace)})

\* Number of words from which a line is no heading.
HeadingWordLimit == 6

\* A test that also takes a line of 6 words for a heading.
IsHeadingUpTo6(line) == isupper(line) /\ WordCount(line) <= HeadingWordLimit

\* line.isupper() and len(line.split()) < 6
IsHeading(line) == isupper(line) /\ WordCount(line) < HeadingWordLimit

\* f"\n\n### {line} ###\n"
Heading(line) == <<"\n", "\n", "###", " ">> \o line \o <<" ", "###", "\n">>

RECURSIVE FormattedLines(_)
\* The loop of lines 74-79 over the lines of the text.
FormattedLines(lines) ==
    IF lines = <<>> THEN <<>>
    ELSE LET line == strip(Head(lines))
         IN  (IF IsHeading(line) THEN <<Heading(line)>>
              ELSE IF line # <<>> THEN <<line>>
              ELSE <<>>) \o FormattedLines(Tail(lines))

\* format_resume_text(resume_text)
format_resume_text(s) == join(FormattedLines(split(s)))

\* The lines of the model: an empty and a blank line, a padded heading, a
\* line in mixed case, a heading with a number, a number alone, upper-case
\* lines of 5 and of 6 words, and an upper-case word followed by a
\* lower-case one.
LineTexts ==
    { <<>>,
      <<" ", "\t">>,
      <<" ", "SKILLS", "\t">>,
      <<"Python", " ", "sql">>,
      <<"WORK", " ", "2020">>,
      <<"2020">>,
      <<"A", " ", "B", " ", "C", " ", "D", " ", "E">>,
      <<"A", " ", "B", " ", "C", " ", "D", " ", "E", " ", "F">>,
      <<"SKILLS", " ", "sql">> }

\* The call, for the text that has the given lines.
FormatCall(lines) ==
    /\ fmpc = "idle"
    /\ lines_at_call' = lines
    /\ format_arg' = join(lines)
    /\ formatted' = format_resume_text(join(lines))
    /\ fmpc' = "returned"
    /\ UNCHANGED non_format_vars

\* The caller has the string.
FormatDone ==
    /\ fmpc = "returned"
    /\ fmpc' = "idle"
    /\ lines_at_call' = <<>>
    /\ format_arg' = <<>>
    /\ formatted' = <<>>
    /\ UNCHANGED non_format_vars

FormatNext ==
    \/ \E n \in 1..MaxLines : \E lines \in [1..n -> LineTexts] : FormatCall(lines)
    \/ FormatDone

FormatSpec == Init /\ [][FormatNext]_vars

\* Calls that follow one another on a store of at most MaxRepeatJobs records,
\* each remembered for comparison with the next.
RepeatNext ==
    \/ \E r \in JobRecords : StoreAdd(r, MaxRepeatJobs)
    \/ \E pdf \in PdfFiles : Call(pdf)
    \/ Query
    \/ Match
    \/ DoneRecorded

RepeatSpec == Init /\ [][RepeatNext]_vars

(***************************************************************************)
(* Properties of process_resume_and_match_jobs.                            *)
(***************************************************************************)
\* The matching step (steps 2 and 3) has ended, one way or the other.
MatchingEnded ==
    /\ pc \in {"returned", "raised"}
    /\ exception # "FileDataError"

\* The matching step returned a ranking.
Ranked ==
    /\ pc = "returned"
    /\ matched_jobs # <<>>
    /\ \A k \in 1..Len(matched_jobs) : matched_jobs[k].kind = "job"

\* The resume and the descriptions of the corpus have at least one term.
SomeTerm == Vocabulary(AllDocuments(resume_text, Documents(collection))) # {}

C2_DescendingTop ==
    Ranked =>
        /\ \A k \in 1..(Len(matched_jobs) - 1) :
               ~SimLess(matched_jobs[k].similarity, matched_jobs[k + 1].similarity)
        /\ Len(top_indices) = Len(matched_jobs)
        /\ \A k \in 1..Len(matched_jobs) :
               matched_jobs[k].similarity = cosine_similarities[top_indices[k]]
        /\ \A i \in (1..Len(cosine_similarities)) \ Range(top_indices) :
               \A k \in 1..Len(matched_jobs) :
                   ~SimLess(matched_jobs[k].similarity, cosine_similarities[i])

C2_Witness ==
    /\ Ranked
    /\ Len(matched_jobs) = 5
    /\ SimLess(matched_jobs[2].similarity, matched_jobs[1].similarity)
    /\ \E i \in (1..Len(cosine_similarities)) \ Range(top_indices) :
           SimLess(cosine_similarities[i], matched_jobs[5].similarity)

\* C3: once the store has returned zero records, the call has returned the
\* single "no job descriptions" entry, without any vectorization and
\* without raising.
C3_EmptyCorpusSentinel ==
    (Len(collection) = 0 /\ pc \in {"fetched", "returned", "raised"}
                         /\ exception # "FileDataError")
        => /\ pc = "returned"
           /\ matched_jobs = <<TextEntry(NoJobsMessage)>>
           /\ ~vectorizer.fit_called
           /\ cosine_similarities = <<>>

C3_Witness ==
    /\ pc = "returned"
    /\ Len(collection) = 0
    /\ matched_jobs = <<TextEntry(NoJobsMessage)>>

\* C4 as stated: the matching step never ends by raising to its caller.
C4_NeverRaises == MatchingEnded => pc = "returned"

\* C5: when fit_transform fails on a non-empty corpus, which requires a
\* resume without any term, the call returns exactly the one error entry
\* and no exception leaves it.
C5_DegenerateEntry ==
    (MatchingEnded /\ vectorizer.fit_called /\ vectorizer.vocabulary = {})
        => /\ pc = "returned"
           /\ exception = "none"
           /\ matched_jobs = <<TextEntry(EmptyVocabularyMessage)>>
           /\ Len(collection) >= 1
           /\ Analyze(resume_text) = <<>>

C5_Witness ==
    /\ pc = "returned"
    /\ Len(collection) >= 2
    /\ vectorizer.fit_called
    /\ matched_jobs = <<TextEntry(EmptyVocabularyMessage)>>

\* C6: a record whose description is exactly the resume text is at least as
\* similar to the resume as every other record of the corpus.
C6_SelfMostSimilar ==
    Ranked =>
        \A i \in 1..Len(job_descriptions) :
            job_descriptions[i] = resume_text =>
                \A j \in 1..Len(job_descriptions) :
                    ~SimLess(cosine_similarities[i], cosine_similarities[j])

C6_Witness ==
    /\ Ranked
    /\ \E i, j \in 1..Len(job_descriptions) :
           /\ job_descriptions[i] = resume_text
           /\ cosine_similarities[j].dot > 0
           /\ SimLess(cosine_similarities[j], cosine_similarities[i])

\* The call that has just ended had the same resume text and the same corpus
\* as the call before it.
SameInputAsPrevious ==
    /\ MatchingEnded
    /\ prev_call.valid
    /\ prev_call.exception # "FileDataError"
    /\ prev_call.resume_text = resume_text
    /\ prev_call.collection = collection

KnownTitles == DOMAIN questions

\* C9: for every string argument the returned list is non-empty: exactly 6
\* questions when the trimmed argument is a known title, exactly 4 otherwise.
C9_SixOrFour ==
    qpc = "returned" =>
        /\ returned_questions # <<>>
        /\ Len(returned_questions) = IF title_core \in KnownTitles THEN 6 ELSE 4

C9_Witness ==
    /\ qpc = "returned"
    /\ job_title_arg = <<"\t">>
    /\ Len(returned_questions) = 4

\* C10: the list returned for a title with whitespace added around it is the
\* list returned for the title itself.
C10_PaddingIgnored ==
    qpc = "returned" =>
        returned_questions = generate_questions_for_job(title_core)

C10_Witness ==
    /\ qpc = "returned"
    /\ title_core = <<"Software", " ", "Engineer">>
    /\ job_title_arg = <<" ", "Software", " ", "Engineer", "\n">>
    /\ returned_questions = questions[<<"Software", " ", "Engineer">>]

\* Question k of qs is the text before, then exactly title, then the text
\* after: the title is interpolated as it is.
Interpolates(qs, k, title) ==
    /\ Len(qs[k]) = Len(title) + 2
    /\ SubSeq(qs[k], 2, Len(title) + 1) = title
    /\ qs[k][1] \notin Whitespace
    /\ qs[k][Len(qs[k])] \notin Whitespace

C12_FallbackNamesTitle ==
    (qpc = "returned" /\ title_core \notin KnownTitles)
        => /\ Len(returned_questions) = 4
           /\ \A k \in 1..4 : Interpolates(returned_questions, k, title_core)

C12_Witness ==
    /\ qpc = "returned"
    /\ title_core = <<"Astronaut">>
    /\ job_title_arg = <<"\t", "Astronaut", " ">>
    /\ returned_questions[4] =
           <<"How would you approach a project in the position of ", "Astronaut", "?">>

(***************************************************************************)
(* Properties of provide_feedback.                                         *)
(***************************************************************************)
\* The length of every answer of the model once its surrounding whitespace
\* is removed, counted by hand.
TrimmedLength ==
    (<<>> :> 0)
    @@ ([i \in 1..25 |-> " "] :> 0)
    @@ (<<" ", "I", " ", "led", " ", "the", " ", "migration.", "\n">> :> 20)
    @@ (<<"\t", "I", " ", "led", " ", "the", " ", "migrations.">> :> 21)

\* Number of answers whose trimmed length exceeds 20.
Substantive == Cardinality({i \in 1..Len(answers) : TrimmedLength[answers[i]] > 20})

C14_Tiers ==
    (fpc = "returned" /\ answers # <<>>) =>
        LET n == Len(answers)
        IN  /\ score = Substantive
            /\ feedback = ExcellentFeedback <=> 5 * Substantive >= 4 * n
            /\ feedback = GoodFeedback
                   <=> (2 * Substantive >= n /\ 5 * Substantive < 4 * n)
            /\ feedback = NeedsImprovementFeedback <=> 2 * Substantive < n
            /\ (n = 3 /\ Substantive = 2) => feedback = GoodFeedback
            /\ (n = 5 /\ Substantive = 5) => feedback = ExcellentFeedback

C14_Witness ==
    /\ fpc = "returned"
    /\ Len(answers) = 5
    /\ Substantive = 4
    /\ feedback = ExcellentFeedback

\* C15 as stated: for the empty list provide_feedback returns score 0 with
\* the "needs improvement" tier.
C15_EmptyNeedsImprovement ==
    (fpc = "returned" /\ answers = <<>>)
        => /\ score = 0
           /\ feedback = NeedsImprovementFeedback

(***************************************************************************)
(* Properties of extract_text_from_pdf.                                    *)
(***************************************************************************)
\* Number of characters (tokens) of the pages before page p.
Offset(pages, p) == SumOver([i \in 1..Len(pages) |-> Len(pages[i])], 1..(p - 1))

\* t holds the first k pages, each once, one after the other, and no more.
HoldsPages(t, pages, k) ==
    /\ Len(t) = Offset(pages, k + 1)
    /\ \A p \in 1..k : \A j \in 1..Len(pages[p]) : t[Offset(pages, p) + j] = pages[p][j]

\* C16: the returned string is the text of every page of the document, each
\* page exactly once, in document order; while the loop runs the text holds
\* the pages visited so far.
C16_PagesInOrder ==
    /\ epc = "loop" => HoldsPages(text, epdf.pages, page_index)
    /\ epc = "returned" =>
           /\ page_index = Len(epdf.pages)
           /\ HoldsPages(text, epdf.pages, Len(epdf.pages))
           /\ text = extract_text_from_pdf(epdf)

C16_Witness ==
    /\ epc = "returned"
    /\ epdf.pages = << <<"sql", "\n">>, <<>>, <<"Python", "\n">> >>
    /\ text = <<"sql", "\n", "Python", "\n">>

(***************************************************************************)
(* Properties of a stream that is no document.                             *)
(***************************************************************************)
\* C17: when the stream is no parseable document the extraction raises with
\* no string returned, fitz.open has been called once, and
\* process_resume_and_match_jobs ends by raising that exception: nothing is
\* put under "matched_jobs" and the store is not read.
C17_ExtractionFailureSurfaces ==
    (pc # "idle" /\ ~pdf_file.parseable) =>
        /\ pc = "raised"
        /\ exception = "FileDataError"
        /\ open_calls = 1
        /\ resume_text = <<>>
        /\ matched_jobs = <<>>
        /\ job_descriptions = <<>>

C17_Witness ==
    /\ pc = "raised"
    /\ exception = "FileDataError"
    /\ ~pdf_file.parseable
    /\ open_calls = 1
    /\ Len(collection) = 2

(***************************************************************************)
(* Properties of extract_skills_using_ai.                                  *)
(***************************************************************************)
\* C18 as stated: the function returns the trimmed completion, that is the
\* text the model generated for the prompt and not the prompt itself, with
\* no whitespace at either end.
C18_ReturnsCompletionOnly ==
    spc = "returned" =>
        LET returned == strip(response)
        IN  /\ returned = strip(decode(completion))
            /\ returned # <<>> => /\ returned[1] \notin Whitespace
                                  /\ returned[Len(returned)] \notin Whitespace

(***************************************************************************)
(* Properties of the order and of the content of a ranking.                *)
(***************************************************************************)
\* C19 as stated: of two entries with equal similarity the record that comes
\* earlier in the corpus is listed first, and of two records with equal
\* similarity of which only one is in the ranking the earlier one is.
C19_EarlierFirstOnTies ==
    Ranked =>
        /\ \A k, l \in 1..Len(top_indices) :
               (k < l /\ SimEq(cosine_similarities[top_indices[k]],
                               cosine_similarities[top_indices[l]]))
                   => top_indices[k] < top_indices[l]
        /\ \A i \in (1..Len(cosine_similarities)) \ Range(top_indices) :
               \A k \in 1..Len(top_indices) :
                   SimEq(cosine_similarities[i], cosine_similarities[top_indices[k]])
                       => top_indices[k] < i

\* C20: every entry of a ranking carries the title of one record of the
\* corpus and the similarity of the resume with the description of that
\* same record; the entries stand for pairwise distinct records; there is
\* one similarity per record and none for the resume, which is no entry.
C20_EntriesPairTitleWithOwnScore ==
    Ranked =>
        LET n == Len(collection)
            X == fit_transform(AllDocuments(resume_text, Documents(collection)))
        IN  /\ Len(cosine_similarities) = n
            /\ Len(matched_jobs) = Len(top_indices)
            /\ Len(matched_jobs) <= n
            /\ \A k \in 1..Len(top_indices) : top_indices[k] \in 1..n
            /\ \A k, l \in 1..Len(top_indices) :
                   k # l => top_indices[k] # top_indices[l]
            /\ \A k \in 1..Len(matched_jobs) :
                   /\ matched_jobs[k].job_title
                          = collection[top_indices[k]].metadata.jobTitle
                   /\ matched_jobs[k].similarity
                          = Similarity(X[1], X[top_indices[k] + 1])

C20_Witness ==
    /\ Ranked
    /\ Len(collection) = 6
    /\ Len(matched_jobs) = 5
    /\ top_indices[1] = 6
    /\ matched_jobs[1].job_title = "Data Scientist"
    /\ collection[1].metadata.jobTitle = "Cloud Engineer"
    /\ matched_jobs[5].job_title = "Software Engineer"
    /\ SimLess(matched_jobs[5].similarity, matched_jobs[1].similarity)

(***************************************************************************)
(* Properties of the requests made to the store.                           *)
(***************************************************************************)
\* What a call returns for a resume text and the records of a store.
ResultFor(resume, store, tie) ==
    IF Len(store) = 0 THEN <<TextEntry(NoJobsMessage)>>
    ELSE IF FitRaises(AllDocuments(resume, Documents(store)))
         THEN <<TextEntry(EmptyVocabularyMessage)>>
         ELSE LET X == fit_transform(AllDocuments(resume, Documents(store)))
                  sims == cosine_similarity(Head(X), Tail(X))
              IN  MatchedJobs([i \in 1..Len(store) |-> store[i].metadata.jobTitle],
                              sims, TopIndices(sims, tie))

\* C21: a call that has reached the matching step has called collection.get
\* exactly once (and a call that has not, never), and what it returns is
\* computed from the records the store holds now, whatever the store held and
\* whatever was returned at the previous call.
C21_OneFetchNoCache ==
    /\ pc \in {"idle", "extracted"} => get_calls = 0
    /\ pc = "raised" /\ exception = "FileDataError" => get_calls = 0
    /\ MatchingEnded \/ pc = "fetched" => get_calls = 1
    /\ pc \in {"fetched", "returned"} =>
           /\ job_descriptions = Documents(collection)
           /\ Len(job_titles) = Len(collection)
    /\ pc = "returned" => matched_jobs = ResultFor(resume_text, collection, tie_order)

C21_Witness ==
    /\ Ranked
    /\ get_calls = 1
    /\ prev_call.valid
    /\ prev_call.pc = "returned"
    /\ prev_call.resume_text = resume_text
    /\ Len(prev_call.collection) = 2
    /\ Len(collection) = 3
    /\ Len(matched_jobs) = 3
    /\ matched_jobs[1] # prev_call.matched_jobs[1]

(***************************************************************************)
(* Properties of what a call leaves behind.                                *)
(***************************************************************************)
\* C22: when process_resume_and_match_jobs has returned (a ranking, the
\* empty-corpus entry or the error entry) the store holds the records, titles
\* and descriptions, it held when the call began, and the resume text is the
\* text extracted from the file; the same holds at every step of the call.
C22_InputsUnchanged ==
    pc # "idle" =>
        /\ collection = collection_at_call
        /\ pc \in {"extracted", "fetched", "returned"}
               => resume_text = extract_text_from_pdf(pdf_file)
        /\ pc \in {"fetched", "returned"}
               => /\ job_descriptions = Documents(collection_at_call)
                  /\ \A i \in 1..Len(job_titles) :
                         job_titles[i] = collection_at_call[i].metadata.jobTitle

C22_Witness ==
    /\ pc = "returned"
    /\ matched_jobs = <<TextEntry(EmptyVocabularyMessage)>>
    /\ Len(collection) = 2
    /\ collection = collection_at_call
    /\ resume_text = <<"The", "c">>

(***************************************************************************)
(* Properties of the document handle.                                      *)
(***************************************************************************)
\* C23: whenever extract_text_from_pdf has returned or raised after the
\* document was opened, also when get_text() of a page raised part-way
\* through, the document is closed; it is open only while the loop runs, and
\* there is none when the open itself failed.
C23_HandleReleased ==
    /\ epc \in {"returned", "raised"} =>
           /\ handle # "open"
           /\ ~OpenRaises(epdf) => handle = "closed"
           /\ OpenRaises(epdf) => handle = "none"
    /\ epc = "loop" => handle = "open"
    /\ epc = "idle" => handle = "none"

C23_Witness ==
    /\ epc = "raised"
    /\ Len(epdf.pages) = 3
    /\ bad_page = 2
    /\ page_index = 1
    /\ text = <<"Python", "\n">>
    /\ handle = "closed"

(***************************************************************************)
(* Properties of calls that follow one another.                            *)
(***************************************************************************)
\* C24: after any sequence of earlier calls, and after the caller has
\* modified a list an earlier call returned, generate_questions_for_job
\* returns what it returns for that argument in a first call, and
\* provide_feedback returns the score and the tier of its argument alone.
C24_NoSharedState ==
    /\ qpc = "returned" => returned_questions = generate_questions_for_job(job_title_arg)
    /\ fpc = "returned" =>
           /\ score = Substantive
           /\ feedback = FeedbackFor(Substantive, Len(answers))

C24_Witness ==
    /\ qpc = "returned"
    /\ job_title = <<"Software", " ", "Engineer">>
    /\ held_key = job_title
    /\ Len(held) = 5
    /\ Len(returned_questions) = 6
    /\ Tail(returned_questions) = held
    /\ fpc = "returned"
    /\ score = 1

(***************************************************************************)
(* Properties of the three results of matching.                            *)
(***************************************************************************)
\* C25: of the results a call returns, the empty-corpus entry is returned
\* exactly for the empty corpus and the error entry exactly for a non-empty
\* corpus without any term; the two differ, and a ranking, also of one
\* record only, equals neither and has no entry equal to one of theirs.
C25_OutcomesDistinct ==
    /\ TextEntry(NoJobsMessage) # TextEntry(EmptyVocabularyMessage)
    /\ pc = "returned" =>
           /\ matched_jobs = <<TextEntry(NoJobsMessage)>> <=> Len(collection) = 0
           /\ matched_jobs = <<TextEntry(EmptyVocabularyMessage)>>
                  <=> (Len(collection) > 0 /\ ~SomeTerm)
           /\ Ranked <=> (Len(collection) > 0 /\ SomeTerm)
           /\ Ranked =>
                  \A k \in 1..Len(matched_jobs) :
                      /\ matched_jobs[k] # TextEntry(NoJobsMessage)
                      /\ matched_jobs[k] # TextEntry(EmptyVocabularyMessage)

C25_Witness ==
    /\ Ranked
    /\ Len(collection) = 1
    /\ Len(matched_jobs) = 1
    /\ matched_jobs[1].similarity.dot = 0

(***************************************************************************)
(* Properties of the predefined list of job titles.                        *)
(***************************************************************************)
\* C26 as stated: for every title of the module's job_titles list,
\* generate_questions_for_job returns the 6 questions the dictionary holds
\* under that title and not the 4 questions of the fallback.
C26_ListedTitlesAreKnown ==
    (qpc = "returned" /\ title_core \in Range(job_titles_list)) =>
        /\ Len(returned_questions) = 6
        /\ title_core \in DOMAIN questions
        /\ returned_questions = questions[title_core]

(***************************************************************************)
(* Properties of the score.                                                *)
(***************************************************************************)
\* C27: the score lies between 0 and the number of answers; it is the number
\* of answers exactly when every answer is substantive and 0 exactly when
\* none is.
C27_ScoreBounds ==
    fpc = "returned" =>
        LET n == Len(answers)
            Long(i) == TrimmedLength[answers[i]] > 20
        IN  /\ 0 <= score
            /\ score <= n
            /\ score = n <=> \A i \in 1..n : Long(i)
            /\ score = 0 <=> \A i \in 1..n : ~Long(i)

C27_Witness ==
    /\ fpc = "returned"
    /\ Len(answers) = 4
    /\ score = 4
    /\ \A i \in 1..4 : TrimmedLength[answers[i]] = 21

(***************************************************************************)
(* Properties of the order of the answers.                                 *)
(***************************************************************************)
\* The list whose i-th answer is the p[i]-th answer of list.
Permuted(list, p) == [i \in 1..Len(list) |-> list[p[i]]]

\* The exchanges of two positions of 1..n, and the identity.
Exchanges(n) ==
    { [k \in 1..n |-> IF k = i THEN j ELSE IF k = j THEN i ELSE k] : i, j \in 1..n }

\* list has the score and the tier that were returned.
SameResult(list) ==
    /\ CountSubstantive(list) = score
    /\ FeedbackFor(CountSubstantive(list), Len(list)) = feedback

\* C28: every permutation of the answers passed has the score and the tier
\* that were returned, and the caller's list is, after the call, the list
\* that was passed.  Every list is graded, and a permutation is a sequence of
\* exchanges of two answers: the exchanges are checked for every list, all
\* permutations for the lists of at most MaxPermuted answers.
C28_OrderIndependent ==
    fpc = "returned" =>
        /\ answers = answers_at_call
        /\ \A p \in Exchanges(Len(answers_at_call)) :
               SameResult(Permuted(answers_at_call, p))
        /\ Len(answers_at_call) <= MaxPermuted =>
               \A p \in Permutations(1..Len(answers_at_call)) :
                   SameResult(Permuted(answers_at_call, p))

C28_Witness ==
    /\ fpc = "returned"
    /\ Len(answers) = 3
    /\ TrimmedLength[answers[1]] = 21
    /\ TrimmedLength[answers[2]] = 20
    /\ TrimmedLength[answers[3]] = 21
    /\ score = 2
    /\ feedback = GoodFeedback

(***************************************************************************)
(* Properties of the order of extraction and query.                        *)
(***************************************************************************)
\* C29: the store is queried only after the text was extracted: while the
\* extraction has not returned, and for ever when it raised, collection.get
\* has not been called; a call that has queried the store, and so every call
\* that returns the empty-corpus entry, has the text of a parseable file.
C29_ExtractionBeforeQuery ==
    /\ (pc = "extracted" \/ exception = "FileDataError") => get_calls = 0
    /\ ~pdf_file.parseable => get_calls = 0
    /\ get_calls > 0 =>
           /\ open_calls = 1
           /\ pdf_file.parseable
           /\ resume_text = extract_text_from_pdf(pdf_file)
    /\ (pc = "returned" /\ matched_jobs = <<TextEntry(NoJobsMessage)>>) =>
           /\ pdf_file.parseable
           /\ get_calls = 1
           /\ resume_text = extract_text_from_pdf(pdf_file)

C29_Witness ==
    /\ pc = "returned"
    /\ matched_jobs = <<TextEntry(NoJobsMessage)>>
    /\ pdf_file.parseable
    /\ resume_text = <<"Python", "sql">>
    /\ get_calls = 1

(***************************************************************************)
(* Properties of format_resume_text.                                       *)
(***************************************************************************)
\* What becomes of every line of the model, worked out by hand: whether it
\* is kept, whether it is a heading, and its text without the whitespace
\* around it.
ExpectedLine ==
    (<<>> :> [kept |-> FALSE, heading |-> FALSE, text |-> <<>>])
    @@ (<<" ", "\t">> :> [kept |-> FALSE, heading |-> FALSE, text |-> <<>>])
    @@ (<<" ", "SKILLS", "\t">> :> [kept |-> TRUE, heading |-> TRUE, text |-> <<"SKILLS">>])
    @@ (<<"Python", " ", "sql">>
            :> [kept |-> TRUE, heading |-> FALSE, text |-> <<"Python", " ", "sql">>])
    @@ (<<"WORK", " ", "2020">>
            :> [kept |-> TRUE, heading |-> TRUE, text |-> <<"WORK", " ", "2020">>])
    @@ (<<"2020">> :> [kept |-> TRUE, heading |-> FALSE, text |-> <<"2020">>])
    @@ (<<"A", " ", "B", " ", "C", " ", "D", " ", "E">>
            :> [kept |-> TRUE, heading |-> TRUE,
                text |-> <<"A", " ", "B", " ", "C", " ", "D", " ", "E">>])
    @@ (<<"A", " ", "B", " ", "C", " ", "D", " ", "E", " ", "F">>
            :> [kept |-> TRUE, heading |-> FALSE,
                text |-> <<"A", " ", "B", " ", "C", " ", "D", " ", "E", " ", "F">>])
    @@ (<<"SKILLS", " ", "sql">>
            :> [kept |-> TRUE, heading |-> FALSE, text |-> <<"SKILLS", " ", "sql">>])

\* The positions of the lines of out that are not empty, in order.
NonEmptyPositions(out) ==
    LET P == {i \in 1..Len(out) : out[i] # <<>>}
    IN  [k \in 1..Cardinality(P) |->
            CHOOSE i \in P : Cardinality({j \in P : j <= i}) = k]

\* C30: the lines of the returned text that are not empty are the non-blank
\* lines of the input, each once and in input order, without the whitespace
\* around them; a line is written "### line ###", with an empty line before
\* and after it, exactly when it is upper-case and has fewer than 6 words,
\* and as it is otherwise; blank lines of the input are dropped.
C30_LinesKeptHeadingsWrapped ==
    fmpc = "returned" =>
        LET in_lines == split(format_arg)
            kept == SelectSeq(in_lines, LAMBDA l : ExpectedLine[l].kept)
            out == split(formatted)
            pos == NonEmptyPositions(out)
        IN  /\ in_lines = lines_at_call
            /\ Len(pos) = Len(kept)
            /\ \A k \in 1..Len(kept) :
                   IF ExpectedLine[kept[k]].heading
                   THEN /\ out[pos[k]] = <<"###", " ">> \o ExpectedLine[kept[k]].text
                                            \o <<" ", "###">>
                        /\ pos[k] > 1 /\ out[pos[k] - 1] = <<>>
                        /\ pos[k] < Len(out) /\ out[pos[k] + 1] = <<>>
                   ELSE out[pos[k]] = ExpectedLine[kept[k]].text

C30_Witness ==
    /\ fmpc = "returned"
    /\ lines_at_call = << <<" ", "SKILLS", "\t">>, <<" ", "\t">>, <<"Python", " ", "sql">> >>
    /\ formatted = <<"\n", "\n", "###", " ", "SKILLS", " ", "###", "\n", "\n",
                     "Python", " ", "sql">>

====
